---- MODULE Spec2Model ----
(***************************************************************************)
(* A model of the langfuse seed script (packages/shared/prisma/seed.ts)    *)
(* and of the SCIM Users route handler.                                    *)
(*                                                                         *)
(* Conventions                                                             *)
(*  - A JavaScript `undefined` (an absent field) is the value Undefined,   *)
(*    the empty tuple; a number or string in a field that may be absent    *)
(*    is Some(v), the one-element tuple.  Ids are tuples already.          *)
(*  - v4() returns a value no other call returns.  The model names the     *)
(*    value by the run of the script and the position of the call (the     *)
(*    call site and the loop indices), which is one-to-one.                *)
(*  - Math.random() is an existentially chosen draw; floor(random * n) is  *)
(*    a draw from 0 .. n-1.                                                *)
(*  - createObjects fills eight collections.  A specification records the  *)
(*    collections named in `tracked` and leaves the others empty, so that  *)
(*    the reachable states stay enumerable; every draw is still made.      *)
(*  - The timestamps of createObjects are milliseconds relative to        *)
(*    Date.now().  They are drawn under SpecTimes only, which keeps of     *)
(*    every collection the rows of the last push: a timestamp is compared  *)
(*    with those of the trace and the span of the current iteration.       *)
(*  - A Prisma query (a PrismaPromise) is sent to the database when it is  *)
(*    awaited, not when it is built; the database answers it in a later    *)
(*    step.  A table of the database is the sequence of its rows.          *)
(*  - A string that the code concatenates, lower-cases, matches or parses  *)
(*    is the tuple of its parts or characters, so that `+`, toLowerCase    *)
(*    and parseInt are computed and not assumed.                           *)
(*  - The per-project tasks of a generator insert rows concurrently.  The  *)
(*    table keeps such rows grouped by project: no query of the script     *)
(*    reads the order of rows of different projects.                       *)
(*  - Under SpecSeed createObjects records its traces, sessions, queue     *)
(*    items and trace comments; observations are not recorded, so that     *)
(*    createDatasets is given an empty list of observations.               *)
(***************************************************************************)
EXTENDS Integers, Sequences, FiniteSets, TLC

VARIABLES
  \* ---- createObjects
  traceVolume, i, j, k, l, co,
  traces, observations, scores, sessions, events, comments, queueItems,
  existingSpanIds, trace, span, returned,
  promptIds, queueIds, configParams,
  tracked, run,
  \* ---- uploadObjects
  upSessions, upComments, upQueueItems, promises, ui, up, awaiting, logs,
  \* ---- the SCIM Users handler
  requests, hpc, hlocal, responses,
  \* ---- main and the generators
  environment, openaiKey, mpc, mlocal, tasks, maps, ds, exit, finished, db0,
  \* ---- the database
  db

objVars == <<traceVolume, i, j, k, l, co,
             traces, observations, scores, sessions, events, comments,
             queueItems, existingSpanIds, trace, span, returned,
             promptIds, queueIds, configParams>>

upVars == <<upSessions, upComments, upQueueItems, promises, ui, up, awaiting, logs>>

scimVars == <<requests, hpc, hlocal, responses>>

seedVars == <<environment, openaiKey, mpc, mlocal, tasks, maps, ds, exit,
              finished, db0>>

\* what createObjects leaves alone, and what uploadObjects leaves alone
outsideObjects == <<upVars, db, scimVars, seedVars>>
outsideUpload == <<objVars, tracked, run, scimVars, seedVars>>

vars == <<objVars, tracked, run, upVars, scimVars, seedVars, db>>

Undefined == <<>>
Some(v) == <<v>>

\* ------------------------------------------------------------------ bounds

\* the largest traceVolume a createObjects run is started with
MaxTraceVolume == 2
\* stands for the 10 of `Math.floor(Math.random() * 10) + 1` (spans per trace)
MaxSpans == 2
\* stands for the 10 of `Math.floor(Math.random() * 10) - 5` (sentiment value)
SentimentDraws == 2
\* the largest traceVolume of a run that records the scores of generations
MaxScoredGenerationTraces == 1

\* stands for the 10_000 of `const chunkSize = 10_000`
chunkSize == 2
\* the longest lists uploadObjects is started with
MaxUploadSessions == 2
MaxUploadComments == 3
MaxUploadQueueItems == 3

\* ------------------------------------------------------- program constants

seedProjectId == "7a88fb47"
project2Id == "239ad00f"
Projects == <<seedProjectId, project2Id>>

NUMERIC == "NUMERIC"
CATEGORICAL == "CATEGORICAL"
BOOLEAN_T == "BOOLEAN"

\* `Math.floor(Math.random() * 2) + 1` generations per span
GenerationDraws == 2
\* `Math.floor(Math.random() * 2)` events per generation
EventDraws == 2

\* stands for the 30 of `Math.floor(Math.random() * 30)` (span start offset)
SpanStartDraws == 3
\* stands for the 5000 of `Math.floor(Math.random() * 5000)` (span duration)
SpanDurationDraws == 5
\* stands for the 90 * 24 * 60 * 60 * 1000 of the trace's age in milliseconds
TraceAgeDraws == 2
\* the largest traceVolume of a run that records the sessions
MaxSessionTraces == 7
\* the largest traceVolume of a run that records the timestamps
MaxTimedTraces == 1

\* ----------------------------------------------------------------- helpers

v4(call) == <<run, call>>

Range(s) == {s[n] : n \in DOMAIN s}

\* a slip: the list as it was pushed
AsPushed(s) == s

\* Array.from(new Set(xs)): the first occurrence of every value, in order
RECURSIVE Unique(_)
Unique(s) ==
  IF s = <<>> THEN <<>>
  ELSE LET front == Unique(SubSeq(s, 1, Len(s) - 1))
           last == s[Len(s)]
       IN IF last \in Range(front) THEN front ELSE Append(front, last)

\* xs.push(...ys) on a recorded collection; a specification that names
\* "latest" keeps the rows of the last push only
Push(c, xs, ys) ==
  IF c \notin tracked THEN xs
  ELSE IF "latest" \in tracked THEN ys
  ELSE xs \o ys

\* a field of a record that belongs to a collection other than the record's own
Field(c, v) == IF c \in tracked THEN v ELSE <<"untracked">>

\* Math.floor(Math.random() * n) for an integer n: Math.random() is in [0, 1)
FloorRandom(n) == IF n > 0 THEN 0 .. n - 1 ELSE n .. 0

\* the draws of a timestamp: all of them when timestamps are recorded
TimeDraws(n) == IF "times" \in tracked THEN FloorRandom(n) ELSE {0}

\* ----------------------------------------------------------- the database

Tables ==
  {"user", "organization", "project", "organizationMembership",
   "projectMembership", "prompt", "apiKey", "scoreConfig", "annotationQueue",
   "traceSession", "comment", "annotationQueueItem", "llmApiKeys",
   "evalTemplate", "jobConfiguration", "dataset", "datasetItem", "datasetRuns",
   "datasetRunItems", "dashboardWidget", "dashboard", "llmSchema"}

EmptyDb == [t \in Tables |-> <<>>]

\* the rows of table t that satisfy a `where`
Rows(d, t, Where(_)) == {n \in DOMAIN d[t] : Where(d[t][n])}

\* prisma.<t>.createMany({ data }): the rows are appended
CreateMany(d, t, data) == [d EXCEPT ![t] = @ \o data]

\* prisma.traceSession.upsert({ where: { id_projectId }, create, update: {} })
UpsertSession(d, session) ==
  LET SameKey(r) == r.id = session.id /\ r.projectId = session.projectId
  IN IF Rows(d, "traceSession", SameKey) # {} THEN d
     ELSE CreateMany(d, "traceSession", <<session>>)

\* --------------------------------------------------------- generateConfigs

\* the `configs` literal of generateConfigs: name, dataType, categories (a
\* literal without categories, and the `null` it becomes, have none: <<>>)
ConfigTemplates ==
  << [name |-> "manual-score", dataType |-> NUMERIC, categories |-> <<>>],
     [name |-> "Accuracy", dataType |-> CATEGORICAL,
      categories |-> << [label |-> "Incorrect", value |-> 0],
                        [label |-> "Partially Correct", value |-> 1],
                        [label |-> "Correct", value |-> 2] >>],
     [name |-> "Toxicity", dataType |-> BOOLEAN_T,
      categories |-> << [label |-> "True", value |-> 1],
                        [label |-> "False", value |-> 0] >>] >>

\* id: `config-${v4()}` of the n-th literal in generateConfigs(project)
ConfigId(project, n) == <<"config", v4(<<project, n>>)>>

\* what generateConfigs pushes to configNameAndId for the n-th config
ConfigNameAndId(project, n) ==
  [name |-> ConfigTemplates[n].name,
   id |-> ConfigId(project, n),
   dataType |-> ConfigTemplates[n].dataType,
   categories |-> ConfigTemplates[n].categories]

\* the list generateConfigs returns
GeneratedConfigs(project) == [n \in 1 .. 3 |-> ConfigNameAndId(project, n)]

\* id: `queue-${v4()}` in generateQueues(project)
QueueId(project) == <<"queue", v4(<<project>>)>>

\* ----------------------------------------------------------- createObjects

\* [project1.id, project2.id][i % 2]
ProjectOf(n) == Projects[(n % 2) + 1]

\* map.get(key) ?? []
GetOrEmpty(map, key) == IF key \in DOMAIN map THEN map[key] ELSE <<>>

ManualScoreDefault ==
  [name |-> "manual-score", id |-> Undefined, dataType |-> NUMERIC,
   categories |-> <<>>]

\* configArray.length >= randomIndex - 1 && configArray[randomIndex], then
\* `config || { name: "manual-score", ... }`
PickConfig(configArray, randomIndex) ==
  IF Len(configArray) >= randomIndex - 1 /\ (randomIndex + 1) \in DOMAIN configArray
  THEN configArray[randomIndex + 1]
  ELSE ManualScoreDefault

\* categories?.find((category) => category.value === value)?.label
FindLabel(categories, value) ==
  LET hits == {n \in DOMAIN categories : categories[n].value = value}
  IN IF hits = {} THEN Undefined
     ELSE Some(categories[CHOOSE n \in hits : \A m \in hits : n <= m].label)

\* a slip in the comparison: value === 0 ? "True" : "False"
BooleanLabelSwapped(value) == IF value = 0 THEN Some("True") ELSE Some("False")

\* value === 1 ? "True" : "False"
BooleanLabel(value) == IF value = 1 THEN Some("True") ELSE Some("False")

\* the object spread scoreNumericAndStringValue
ScoreNumericAndStringValue(dataType, categories, value) ==
  [value |-> IF dataType \in {NUMERIC, CATEGORICAL, BOOLEAN_T}
             THEN Some(value) ELSE Undefined,
   stringValue |-> IF dataType = CATEGORICAL THEN FindLabel(categories, value)
                   ELSE IF dataType = BOOLEAN_T THEN BooleanLabel(value)
                   ELSE Undefined]

\* the first element of traceScores: the annotation score
AnnotationScore(tr, config, value) ==
  LET nv == ScoreNumericAndStringValue(config.dataType, config.categories, value)
  IN [name |-> config.name, source |-> "ANNOTATION",
      traceId |-> tr.id, observationId |-> Undefined,
      projectId |-> tr.projectId, dataType |-> Some(config.dataType),
      value |-> nv.value, stringValue |-> nv.stringValue,
      configId |-> config.id]

\* the second element of traceScores: value Math.floor(Math.random() * 10) - 5
SentimentScore(tr, draw) ==
  [name |-> "sentiment", source |-> "API",
   traceId |-> tr.id, observationId |-> Undefined,
   projectId |-> tr.projectId, dataType |-> Some(NUMERIC),
   value |-> Some(draw - 5), stringValue |-> Undefined, configId |-> Undefined]

\* the third element of traceScores
CompletenessScore(tr, draw) ==
  [name |-> "Completeness", source |-> "API",
   traceId |-> tr.id, observationId |-> Undefined,
   projectId |-> tr.projectId, dataType |-> Some(CATEGORICAL),
   value |-> Undefined,
   stringValue |-> IF draw = 1 THEN Some("Fully") ELSE Some("Partially"),
   configId |-> Undefined]

\* the "quality" and "conciseness" scores of a generation; the value
\* Math.random() * 2 - 1 is any number of [-1, 1), written 0 here
GenerationScore(name, tr, generationId) ==
  [name |-> name, source |-> "API",
   traceId |-> tr.id, observationId |-> generationId,
   projectId |-> tr.projectId, dataType |-> Undefined,
   value |-> Some(0), stringValue |-> Undefined, configId |-> Undefined]

\* the queueItem literal
QueueItem(tr, projectId) ==
  [queueId |-> GetOrEmpty(queueIds, projectId)[1], objectId |-> tr.id,
   objectType |-> "TRACE", projectId |-> projectId]

\* the trace literal (the fields the properties read)
TraceRecord(n, projectId, sessionId) ==
  [id |-> <<"trace", v4(<<n>>)>>, projectId |-> projectId,
   sessionId |-> Field("sessions", sessionId)]

\* a slip in the span literal: projectId: project1.id
SpanRecordOfProject1(tr, n, m, parent) ==
  [type |-> "SPAN", id |-> <<"span", v4(<<n, m>>)>>,
   projectId |-> seedProjectId, traceId |-> tr.id,
   parentObservationId |-> parent]

\* the span literal
SpanRecord(tr, n, m, parent) ==
  [type |-> "SPAN", id |-> <<"span", v4(<<n, m>>)>>,
   projectId |-> tr.projectId, traceId |-> tr.id,
   parentObservationId |-> parent]

\* a slip in the generation literal: parentObservationId: trace.id
GenerationRecordUnderTrace(tr, sp, n, m, g) ==
  [type |-> "GENERATION", id |-> <<"generation", v4(<<n, m, g>>)>>,
   projectId |-> tr.projectId, traceId |-> tr.id,
   parentObservationId |-> tr.id]

\* the generation literal
GenerationRecord(tr, sp, n, m, g) ==
  [type |-> "GENERATION", id |-> <<"generation", v4(<<n, m, g>>)>>,
   projectId |-> tr.projectId, traceId |-> tr.id,
   parentObservationId |-> sp.id]

\* the event literal
EventRecord(tr, sp, n, m, g, e) ==
  [type |-> "EVENT", id |-> <<"event", v4(<<n, m, g, e>>)>>,
   projectId |-> tr.projectId, traceId |-> tr.id,
   parentObservationId |-> sp.id]

\* traceTs, in milliseconds before Date.now(): timestamp and createdAt
TraceTimes(age) == [timestamp |-> 0 - age]

\* spanTsStart and spanTsEnd: startTime and endTime of the span literal
SpanTimes(traceTs, offset, duration) ==
  [startTime |-> traceTs + offset, endTime |-> traceTs + offset + duration]

\* a slip: the generation's end is drawn within the whole span's duration
GenerationEndRangeOfSpan(sp, generationTsStart) == sp.endTime - sp.startTime

\* spanTsEnd.getTime() - generationTsStart.getTime()
GenerationEndRange(sp, generationTsStart) == sp.endTime - generationTsStart

\* generationTsStart + Math.floor((generationTsEnd - generationTsStart) / 3)
GenerationTsCompletionStart(generationTsStart, generationTsEnd) ==
  generationTsStart + ((generationTsEnd - generationTsStart) \div 3)

\* startTime, endTime and completionStartTime of the generation literal
GenerationTimes(sp, offset, duration, rCompletion) ==
  LET generationTsStart == sp.startTime + offset
      generationTsEnd == generationTsStart + duration
  IN [startTime |-> generationTsStart, endTime |-> generationTsEnd,
      completionStartTime |->
        IF rCompletion
        THEN Some(GenerationTsCompletionStart(generationTsStart, generationTsEnd))
        ELSE Undefined]

\* eventTs: startTime and createdAt of the event literal
EventTimes(sp, offset) == [startTime |-> sp.startTime + offset]

\* One pass of the body of `for (let i = 0; i < traceVolume; i++)` up to the
\* span loop.
TraceBody ==
  /\ co = "trace"
  /\ i < traceVolume
  /\ \E rSession, rQueue, rAnnotation, rSentiment, rCompleteness, rComment \in BOOLEAN,
        randomIndex \in 0 .. 2, value \in 0 .. 1,
        sentimentDraw \in 0 .. SentimentDraws - 1, completenessDraw \in 0 .. 1,
        age \in TimeDraws(TraceAgeDraws) :
       LET projectId == ProjectOf(i)
           session == [id |-> <<"session", i % 3>>, projectId |-> projectId]
           tr == TraceRecord(i, projectId,
                             IF rSession THEN session.id ELSE Undefined)
                 @@ TraceTimes(age)
           config == PickConfig(GetOrEmpty(configParams, projectId), randomIndex)
           queueItem == IF rQueue /\ GetOrEmpty(queueIds, projectId) # <<>>
                        THEN <<QueueItem(tr, projectId)>> ELSE <<>>
           traceScores ==
                (IF rAnnotation THEN <<AnnotationScore(tr, config, value)>> ELSE <<>>)
             \o (IF rSentiment THEN <<SentimentScore(tr, sentimentDraw)>> ELSE <<>>)
             \o (IF rCompleteness THEN <<CompletenessScore(tr, completenessDraw)>> ELSE <<>>)
       IN /\ sessions' = Push("sessions", sessions,
                              IF rSession THEN <<session>> ELSE <<>>)
          /\ trace' = tr
          /\ traces' = Push("traces", traces, <<tr>>)
          /\ queueItems' = Push("queueItems", queueItems, queueItem)
          /\ comments' = Push("traceComments", comments,
                              IF rComment
                              THEN << [projectId |-> tr.projectId, objectId |-> tr.id,
                                       objectType |-> "TRACE"] >>
                              ELSE <<>>)
          /\ scores' = Push("traceScores", scores, traceScores)
  /\ existingSpanIds' = <<>>
  /\ j' = 0
  /\ co' = "span"
  /\ UNCHANGED <<traceVolume, i, k, l, observations, events, span, returned,
                 promptIds, queueIds, configParams, tracked, run, outsideObjects>>

\* a slip in the span loop's bound: Math.floor(Math.random() * 10)
SpanLoopBoundWithoutOne(draw) == draw

\* Math.floor(Math.random() * 10) + 1
SpanLoopBound(draw) == draw + 1

\* `j < Math.floor(Math.random() * 10) + 1` holds: the span is built
SpanBody ==
  /\ co = "span"
  /\ \E draw \in 0 .. MaxSpans - 1 : j < SpanLoopBound(draw)
  /\ \E noParent \in BOOLEAN, pick \in 0 .. MaxSpans - 1,
        offset \in TimeDraws(SpanStartDraws), duration \in TimeDraws(SpanDurationDraws) :
       /\ pick < Len(existingSpanIds) \/ pick = 0
       /\ LET parent == IF Len(existingSpanIds) = 0 \/ noParent THEN Undefined
                        ELSE existingSpanIds[pick + 1]
              sp == SpanRecord(trace, i, j, parent)
                    @@ SpanTimes(trace.timestamp, offset, duration)
          IN /\ span' = [sp EXCEPT !.parentObservationId = Field("observations", @)]
             /\ observations' = Push("observations", observations, <<sp>>)
             /\ existingSpanIds' = Push("observations", existingSpanIds, <<sp.id>>)
  /\ k' = 0
  /\ co' = "generation"
  /\ UNCHANGED <<traceVolume, i, j, l, traces, scores, sessions, events, comments,
                 queueItems, trace, returned, promptIds, queueIds, configParams,
                 tracked, run, outsideObjects>>

\* the span loop's condition fails: the names of the trace's block go out
\* of scope, and the next trace
SpanLoopExit ==
  /\ co = "span"
  /\ \E draw \in 0 .. MaxSpans - 1 : ~(j < SpanLoopBound(draw))
  /\ i' = i + 1
  /\ j' = 0
  /\ existingSpanIds' = <<>>
  /\ trace' = Undefined
  /\ span' = Undefined
  /\ co' = "trace"
  /\ UNCHANGED <<traceVolume, k, l, traces, observations, scores, sessions,
                 events, comments, queueItems,
                 returned, promptIds, queueIds, configParams, tracked, run, outsideObjects>>

\* `k < Math.floor(Math.random() * 2) + 1` holds: the generation, its scores
\* and its comment
GenerationBody ==
  /\ co = "generation"
  /\ \E draw \in 0 .. GenerationDraws - 1 : k < draw + 1
  /\ \E rQuality, rConciseness, rComment \in BOOLEAN,
        rCompletion \in (IF "times" \in tracked THEN BOOLEAN ELSE {FALSE}),
        offset \in TimeDraws(span.endTime - span.startTime) :
     \E duration \in TimeDraws(GenerationEndRange(span, span.startTime + offset)) :
       LET gen == GenerationRecord(trace, span, i, j, k)
                  @@ GenerationTimes(span, offset, duration, rCompletion)
       IN /\ observations' = Push("observations", observations, <<gen>>)
          /\ scores' = Push("generationScores", scores,
                  (IF rQuality THEN <<GenerationScore("quality", trace, gen.id)>> ELSE <<>>)
               \o (IF rConciseness THEN <<GenerationScore("conciseness", trace, gen.id)>> ELSE <<>>))
          /\ comments' = Push("generationComments", comments,
                              IF rComment
                              THEN << [projectId |-> trace.projectId, objectId |-> gen.id,
                                       objectType |-> "OBSERVATION"] >>
                              ELSE <<>>)
  /\ l' = 0
  /\ co' = "event"
  /\ UNCHANGED <<traceVolume, i, j, k, traces, sessions, events, queueItems,
                 existingSpanIds, trace, span, returned, promptIds, queueIds,
                 configParams, tracked, run, outsideObjects>>

GenerationLoopExit ==
  /\ co = "generation"
  /\ \E draw \in 0 .. GenerationDraws - 1 : ~(k < draw + 1)
  /\ j' = j + 1
  /\ k' = 0
  /\ co' = "span"
  /\ UNCHANGED <<traceVolume, i, l, traces, observations, scores, sessions,
                 events, comments, queueItems, existingSpanIds, trace, span,
                 returned, promptIds, queueIds, configParams, tracked, run, outsideObjects>>

\* `l < Math.floor(Math.random() * 2)` holds: the event
EventBody ==
  /\ co = "event"
  /\ \E draw \in 0 .. EventDraws - 1 : l < draw
  /\ \E offset \in TimeDraws(span.endTime - span.startTime) :
       events' = Push("events", events,
                      <<EventRecord(trace, span, i, j, k, l) @@ EventTimes(span, offset)>>)
  /\ l' = l + 1
  /\ UNCHANGED <<traceVolume, i, j, k, co, traces, observations, scores, sessions,
                 comments, queueItems, existingSpanIds, trace, span, returned,
                 promptIds, queueIds, configParams, tracked, run, outsideObjects>>

EventLoopExit ==
  /\ co = "event"
  /\ \E draw \in 0 .. EventDraws - 1 : ~(l < draw)
  /\ k' = k + 1
  /\ l' = 0
  /\ co' = "generation"
  /\ UNCHANGED <<traceVolume, i, j, traces, observations, scores, sessions,
                 events, comments, queueItems, existingSpanIds, trace, span,
                 returned, promptIds, queueIds, configParams, tracked, run, outsideObjects>>

\* the trace loop's condition fails: uniqueSessions and the return value
CreateObjectsReturn ==
  /\ co = "trace"
  /\ ~(i < traceVolume)
  /\ returned' = [traces |-> traces, observations |-> observations,
                  scores |-> scores, queueItems |-> queueItems,
                  sessions |-> Unique(sessions), events |-> events,
                  comments |-> comments]
  /\ co' = "returned"
  /\ UNCHANGED <<traceVolume, i, j, k, l, traces, observations, scores, sessions,
                 events, comments, queueItems, existingSpanIds, trace, span,
                 promptIds, queueIds, configParams, tracked, run, outsideObjects>>

NextObjects ==
  \/ TraceBody
  \/ SpanBody
  \/ SpanLoopExit
  \/ GenerationBody
  \/ GenerationLoopExit
  \/ EventBody
  \/ EventLoopExit
  \/ CreateObjectsReturn

\* ------------------------------------------------------------ uploadObjects

\* a chunk(array, size) that leaves out the remainder shorter than size
ChunkFullOnly(array, size) ==
  [c \in 1 .. (Len(array) \div size) |->
     SubSeq(array, (c - 1) * size + 1, c * size)]

\* lodash chunk(array, size)
Chunk(array, size) ==
  [c \in 1 .. ((Len(array) + size - 1) \div size) |->
     SubSeq(array, (c - 1) * size + 1,
            IF c * size < Len(array) THEN c * size ELSE Len(array))]

\* a Promise that runs its query as soon as it is built
EagerPromise(table, data) == [table |-> table, data |-> data, state |-> "running"]

\* prisma.<table>.upsert(...) / createMany(...): a PrismaPromise, which sends
\* its query when it is first awaited
PrismaPromise(table, data) == [table |-> table, data |-> data, state |-> "deferred"]

\* chunk(rows, size).forEach((chunk) => promises.push(prisma.<table>...))
PromisesFor(table, rows, size) ==
  LET chunks == Chunk(rows, size)
  IN [c \in DOMAIN chunks |-> PrismaPromise(table, chunks[c])]

\* Math.ceil(promises.length / 10)
LogStride(len) == (len + 9) \div 10

\* i + 1 >= promises.length || i % Math.ceil(promises.length / 10) === 0
LogsProgress(n, len) == n + 1 >= len \/ n % LogStride(len) = 0

UploadLabel ==
  [sessions |-> "Sessions", comments |-> "Comments",
   queueItems |-> "Annotation Queue Items"]

\* `promises = []`, the forEach that fills it, and the loop's `let i = 0`
UploadBegin(phase, table, rows, size) ==
  /\ promises' = PromisesFor(table, rows, size)
  /\ ui' = 0
  /\ up' = phase
  /\ awaiting' = FALSE

\* uploadObjects is entered: the session upserts are built
UploadSessionsBegin ==
  /\ up = "called"
  /\ UploadBegin("sessions", "traceSession", upSessions, 1)
  /\ UNCHANGED <<outsideUpload, upSessions, upComments, upQueueItems, logs, db>>

\* the body of a loop up to `await promises[i]`: the progress line, and the
\* query of promises[i] is sent
UploadAwait ==
  /\ up \in {"sessions", "comments", "queueItems"}
  /\ ~awaiting
  /\ ui < Len(promises)
  /\ logs' = IF LogsProgress(ui, Len(promises))
             THEN Append(logs, [of |-> UploadLabel[up], done |-> ui + 1,
                                outOf |-> Len(promises)])
             ELSE logs
  /\ promises' = [promises EXCEPT ![ui + 1].state =
                    IF @ = "deferred" THEN "running" ELSE @]
  /\ awaiting' = TRUE
  /\ UNCHANGED <<outsideUpload, upSessions, upComments, upQueueItems, ui, up, db>>

\* the write of a query that has been sent
Written(d, promise) ==
  IF promise.table = "traceSession" THEN UpsertSession(d, promise.data[1])
  ELSE CreateMany(d, promise.table, promise.data)

\* the database answers a query that has been sent
DbSettle ==
  /\ \E n \in DOMAIN promises :
       /\ promises[n].state = "running"
       /\ db' = Written(db, promises[n])
       /\ promises' = [promises EXCEPT ![n].state = "settled"]
  /\ UNCHANGED <<outsideUpload, upSessions, upComments, upQueueItems, ui, up,
                 awaiting, logs>>

\* `await promises[i]` returns; i++
UploadResume ==
  /\ awaiting
  /\ promises[ui + 1].state = "settled"
  /\ awaiting' = FALSE
  /\ ui' = ui + 1
  /\ UNCHANGED <<outsideUpload, upSessions, upComments, upQueueItems, promises,
                 up, logs, db>>

\* the session loop ends: the comment batches are built
UploadCommentsBegin ==
  /\ up = "sessions" /\ ~awaiting /\ ~(ui < Len(promises))
  /\ UploadBegin("comments", "comment", upComments, chunkSize)
  /\ UNCHANGED <<outsideUpload, upSessions, upComments, upQueueItems, logs, db>>

\* the comment loop ends: the queue item batches are built
UploadQueueItemsBegin ==
  /\ up = "comments" /\ ~awaiting /\ ~(ui < Len(promises))
  /\ UploadBegin("queueItems", "annotationQueueItem", upQueueItems, chunkSize)
  /\ UNCHANGED <<outsideUpload, upSessions, upComments, upQueueItems, logs, db>>

\* the queue item loop ends: uploadObjects returns
UploadReturn ==
  /\ up = "queueItems" /\ ~awaiting /\ ~(ui < Len(promises))
  /\ up' = "returned"
  /\ UNCHANGED <<outsideUpload, upSessions, upComments, upQueueItems, promises,
                 ui, awaiting, logs, db>>

NextUpload ==
  \/ UploadSessionsBegin
  \/ UploadAwait
  \/ DbSettle
  \/ UploadResume
  \/ UploadCommentsBegin
  \/ UploadQueueItemsBegin
  \/ UploadReturn

\* -------------------------------------------------------------------- main

\* How often the script is run against the same database
MaxRuns == 2
\* stands for the 100 of `environment === "load" ? LOAD_TRACE_VOLUME : 100`
ExamplesTraceVolume == 1
\* stands for the 10_000 of `const LOAD_TRACE_VOLUME = 10_000`
LOAD_TRACE_VOLUME == 2
\* stands for the 20 of `for (let i = 1; i <= 20; i++)` in generatePrompts
ManyVersions == 2
\* stands for the 18 of `for (let i = 0; i < 18; i++)` in createDatasets
DatasetItems == 2

seedOrgId == "seed-org-id"
seedUserId1 == "user-1"
seedUserId2 == "user-2"
seedOrgIdOrg2 == "demo-org-id"

\* the values of the --environment argument: absent, or a string
Environments == {Undefined, Some("examples"), Some("load"), Some("production")}

\* what the script records of createObjects
SeedView == {"traces", "queueItems", "sessions", "traceComments"}

\* The unique keys of a table: the primary key and the compound keys the
\* script's `where` clauses name (orgId_userId, projectId_name_version, ...).
UniqueKeys ==
  [t \in Tables |->
     CASE t = "user" -> {{"id"}, {"email"}}
       [] t = "organizationMembership" -> {{"id"}, {"orgId", "userId"}}
       [] t = "projectMembership" -> {{"projectId", "userId"}}
       [] t = "prompt" -> {{"id"}, {"projectId", "name", "version"}}
       [] t = "evalTemplate" -> {{"id"}, {"projectId", "name", "version"}}
       [] t = "annotationQueue" -> {{"id"}, {"projectId", "name"}}
       [] t = "traceSession" -> {{"id", "projectId"}}
       [] t = "datasetRuns" -> {{"id"}, {"datasetId", "projectId", "name"}}
       [] t \in {"comment", "annotationQueueItem", "datasetRunItems"} -> {}
       [] OTHER -> {{"id"}}]

\* a row that shares a unique key with a row of the table other than `skip`
Violates(d, t, row, skip) ==
  \E key \in UniqueKeys[t], n \in DOMAIN d[t] \ skip :
    \A f \in key : d[t][n][f] = row[f]

\* prisma.<t>.create({ data })
Create(d, t, row) ==
  IF Violates(d, t, row, {}) THEN [threw |-> TRUE, db |-> d, row |-> row]
  ELSE [threw |-> FALSE, db |-> CreateMany(d, t, <<row>>), row |-> row]

\* prisma.<t>.upsert({ where, create, update }): the row that satisfies
\* `where` is updated, and without one `create` is inserted; a write that
\* breaks a unique key throws
Upsert(d, t, Where(_), create, Update(_)) ==
  LET hits == Rows(d, t, Where)
      n == CHOOSE n \in hits : \A m \in hits : n <= m
      updated == Update(d[t][n])
  IN IF hits = {} THEN Create(d, t, create)
     ELSE IF Violates(d, t, updated, {n})
     THEN [threw |-> TRUE, db |-> d, row |-> updated]
     ELSE [threw |-> FALSE, db |-> [d EXCEPT ![t][n] = updated], row |-> updated]

\* update: {}
Unchanged(row) == row

\* an id the database generates for a row created without one
Cuid(t, call) == <<"cuid", <<run, t, call>>>>

\* map.set(key, value)
MapSet(map, key, value) ==
  [x \in DOMAIN map \cup {key} |-> IF x = key THEN value ELSE map[x]]

NoMainLocals ==
  [user |-> <<>>, user2 |-> <<>>, project1 |-> <<>>, project2 |-> <<>>,
   orgMembership2 |-> <<>>, evalTemplate |-> <<>>, configIdsAndNames |-> <<>>,
   queueIds |-> <<>>, promptIds |-> <<>>, project |-> 0]

NoTask == [kind |-> "none", pc |-> "none", n |-> 0, out |-> <<>>]
NoTasks == [p \in Range(Projects) |-> NoTask]
NoMaps == [projectIdsToConfigs |-> <<>>, projectIdsToQueues |-> <<>>, promptIds |-> <<>>]
NoDatasets ==
  [pc |-> "none", datasetNumber |-> 0, project |-> 0, i |-> 0,
   datasetRunNumber |-> 0, dataset |-> <<>>, datasetItemIds |-> <<>>,
   observations |-> <<>>]
NoExit == [prisma |-> 0, redis |-> 0, code |-> Undefined]

\* what a step of main leaves alone
mainFrame == <<objVars, tracked, run, upVars, scimVars, environment, openaiKey,
               tasks, maps, ds, exit, finished, db0>>

\* `await` of a query in main: the result, or the rejection of main
MainAwait(result, next, locals) ==
  /\ db' = result.db
  /\ IF result.threw
     THEN mpc' = "rejected" /\ mlocal' = mlocal
     ELSE mpc' = next /\ mlocal' = locals

\* prisma.user.upsert of seedUserId1
MainUpsertUser1 ==
  /\ mpc = "user1"
  /\ LET result == Upsert(db, "user", LAMBDA r : r.id = seedUserId1,
                      [id |-> seedUserId1, name |-> "Demo User",
                       email |-> "demo@langfuse.com"],
                      LAMBDA r : [r EXCEPT !.name = "Demo User",
                                           !.email = "demo@langfuse.com"])
     IN MainAwait(result, "user2", [mlocal EXCEPT !.user = result.row])
  /\ UNCHANGED mainFrame

\* prisma.user.upsert of seedUserId2
MainUpsertUser2 ==
  /\ mpc = "user2"
  /\ LET result == Upsert(db, "user", LAMBDA r : r.id = seedUserId2,
                      [id |-> seedUserId2, name |-> "Demo User 2",
                       email |-> "member@langfuse.com"],
                      LAMBDA r : [r EXCEPT !.name = "Demo User 2",
                                           !.email = "member@langfuse.com"])
     IN MainAwait(result, "organization", [mlocal EXCEPT !.user2 = result.row])
  /\ UNCHANGED mainFrame

\* prisma.organization.upsert of seedOrgId
MainUpsertOrganization ==
  /\ mpc = "organization"
  /\ LET result == Upsert(db, "organization", LAMBDA r : r.id = seedOrgId,
                      [id |-> seedOrgId, name |-> "Seed Org"],
                      LAMBDA r : [r EXCEPT !.name = "Seed Org"])
     IN MainAwait(result, "project1", mlocal)
  /\ UNCHANGED mainFrame

\* prisma.project.upsert of seedProjectId
MainUpsertProject1 ==
  /\ mpc = "project1"
  /\ LET result == Upsert(db, "project", LAMBDA r : r.id = seedProjectId,
                      [id |-> seedProjectId, name |-> "llm-app", orgId |-> seedOrgId],
                      LAMBDA r : [r EXCEPT !.name = "llm-app", !.orgId = seedOrgId])
     IN MainAwait(result, "orgMembership1", [mlocal EXCEPT !.project1 = result.row])
  /\ UNCHANGED mainFrame

\* prisma.organizationMembership.upsert of (user, seed org)
MainUpsertOrgMembership1 ==
  /\ mpc = "orgMembership1"
  /\ LET result == Upsert(db, "organizationMembership",
                      LAMBDA r : r.userId = mlocal.user.id /\ r.orgId = seedOrgId,
                      [id |-> Cuid("organizationMembership", <<seedOrgId, mlocal.user.id>>),
                       userId |-> mlocal.user.id, orgId |-> seedOrgId, role |-> "OWNER"],
                      Unchanged)
     IN MainAwait(result, "orgMembership2", mlocal)
  /\ UNCHANGED mainFrame

\* prisma.organizationMembership.upsert of (user2, seed org)
MainUpsertOrgMembership2 ==
  /\ mpc = "orgMembership2"
  /\ LET result == Upsert(db, "organizationMembership",
                      LAMBDA r : r.userId = mlocal.user2.id /\ r.orgId = seedOrgId,
                      [id |-> Cuid("organizationMembership", <<seedOrgId, mlocal.user2.id>>),
                       userId |-> mlocal.user2.id, orgId |-> seedOrgId, role |-> "MEMBER"],
                      Unchanged)
     IN MainAwait(result, "projectMembership",
                  [mlocal EXCEPT !.orgMembership2 = result.row])
  /\ UNCHANGED mainFrame

\* prisma.projectMembership.upsert of (project1, user2)
MainUpsertProjectMembership ==
  /\ mpc = "projectMembership"
  /\ LET result == Upsert(db, "projectMembership",
                      LAMBDA r : /\ r.projectId = mlocal.project1.id
                                 /\ r.userId = mlocal.user2.id,
                      [userId |-> mlocal.user2.id, projectId |-> mlocal.project1.id,
                       role |-> "ADMIN", orgMembershipId |-> mlocal.orgMembership2.id],
                      LAMBDA r : [r EXCEPT !.orgMembershipId = mlocal.orgMembership2.id])
     IN MainAwait(result, "summaryPrompt", mlocal)
  /\ UNCHANGED mainFrame

\* prisma.prompt.upsert of summary-prompt
MainUpsertSummaryPrompt ==
  /\ mpc = "summaryPrompt"
  /\ LET result == Upsert(db, "prompt",
                      LAMBDA r : /\ r.projectId = seedProjectId
                                 /\ r.name = "summary-prompt"
                                 /\ r.version = 1,
                      [id |-> Cuid("prompt", <<"summary-prompt">>),
                       projectId |-> seedProjectId, name |-> "summary-prompt",
                       version |-> 1],
                      Unchanged)
     IN MainAwait(result, "apiKey", mlocal)
  /\ UNCHANGED mainFrame

\* a slip in the seed of the api key: create without the findUnique
AlwaysCreateApiKey(d, key) == Create(d, "apiKey", key)

\* if (!(await prisma.apiKey.findUnique(...))) await prisma.apiKey.create(...)
FindOrCreateApiKey(d, key) ==
  IF Rows(d, "apiKey", LAMBDA r : r.id = key.id) # {}
  THEN [threw |-> FALSE, db |-> d, row |-> key]
  ELSE Create(d, "apiKey", key)

\* the seed-api-key of project1
MainCreateApiKey ==
  /\ mpc = "apiKey"
  /\ MainAwait(FindOrCreateApiKey(db,
                 [id |-> "seed-api-key", publicKey |-> "pk-lf-1234567890",
                  note |-> "seeded key", scope |-> "PROJECT",
                  projectId |-> mlocal.project1.id]),
               "guard", mlocal)
  /\ UNCHANGED mainFrame

\* a slip in the guard: any environment argument passes
AnyEnvironment(env) == env # Undefined

\* environment === "examples" || environment === "load"
EnvironmentGuard(env) == env = Some("examples") \/ env = Some("load")

\* `if (environment === "examples" || environment === "load")`; without it
\* main resolves
MainEnvironmentGuard ==
  /\ mpc = "guard"
  /\ mpc' = IF EnvironmentGuard(environment) THEN "organization2" ELSE "resolved"
  /\ UNCHANGED <<mainFrame, mlocal, db>>

\* prisma.organization.upsert of the demo org
MainUpsertOrganization2 ==
  /\ mpc = "organization2"
  /\ LET result == Upsert(db, "organization", LAMBDA r : r.id = seedOrgIdOrg2,
                      [id |-> seedOrgIdOrg2, name |-> "Langfuse Demo"],
                      LAMBDA r : [r EXCEPT !.name = "Langfuse Demo"])
     IN MainAwait(result, "project2", mlocal)
  /\ UNCHANGED mainFrame

\* prisma.project.upsert of project2Id
MainUpsertProject2 ==
  /\ mpc = "project2"
  /\ LET result == Upsert(db, "project", LAMBDA r : r.id = project2Id,
                      [id |-> project2Id, name |-> "demo-app", orgId |-> seedOrgIdOrg2],
                      LAMBDA r : [r EXCEPT !.orgId = seedOrgIdOrg2])
     IN MainAwait(result, "orgMembership3", [mlocal EXCEPT !.project2 = result.row])
  /\ UNCHANGED mainFrame

\* prisma.organizationMembership.upsert of (user, demo org)
MainUpsertOrgMembership3 ==
  /\ mpc = "orgMembership3"
  /\ LET result == Upsert(db, "organizationMembership",
                      LAMBDA r : r.userId = mlocal.user.id /\ r.orgId = seedOrgIdOrg2,
                      [id |-> Cuid("organizationMembership", <<seedOrgIdOrg2, mlocal.user.id>>),
                       userId |-> mlocal.user.id, orgId |-> seedOrgIdOrg2,
                       role |-> "VIEWER"],
                      Unchanged)
     IN MainAwait(result, "apiKey2", mlocal)
  /\ UNCHANGED mainFrame

\* the seed-api-key-2 of project2
MainCreateApiKey2 ==
  /\ mpc = "apiKey2"
  /\ MainAwait(FindOrCreateApiKey(db,
                 [id |-> "seed-api-key-2", publicKey |-> "pk-lf-asdfghjkl",
                  note |-> "seeded key 2", scope |-> "PROJECT",
                  projectId |-> mlocal.project2.id]),
               "configs", mlocal)
  /\ UNCHANGED mainFrame

\* ------------------------------------------------ the per-project generators

\* the script has not ended: its pending tasks still run
ProcessRunning == mpc \notin {"idle", "ended", "exited"}

\* projects.map(async (project) => ...): one task per project
SpawnTasks(kind) ==
  [p \in Range(Projects) |-> [kind |-> kind, pc |-> "running", n |-> 0, out |-> <<>>]]

\* Promise.all has rejected: a task threw
Rejected(kind) ==
  \E p \in DOMAIN tasks : tasks[p].kind = kind /\ tasks[p].pc = "threw"

\* Promise.all has resolved: every task has returned
Resolved(kind) ==
  \A p \in DOMAIN tasks : tasks[p].kind = kind /\ tasks[p].pc = "returned"

\* what a step of a task leaves alone
taskFrame == <<objVars, tracked, run, upVars, scimVars, environment, openaiKey,
               mpc, mlocal, ds, exit, finished, db0>>

\* The order of the rows of a table is the order of their insertion, which
\* no query of the script reads.  The rows the concurrent tasks insert are
\* kept grouped by project, so that two interleavings of the tasks that
\* leave the same rows leave the same table.
GroupedByProject(rows) ==
  SelectSeq(rows, LAMBDA r : r.projectId # project2Id)
  \o SelectSeq(rows, LAMBDA r : r.projectId = project2Id)

\* a step of the task of project p: `await` of a query on table t, and what
\* is pushed
TaskAwait(p, t, result, pushed) ==
  /\ db' = [result.db EXCEPT ![t] = GroupedByProject(@)]
  /\ tasks' = [tasks EXCEPT ![p] =
       IF result.threw THEN [@ EXCEPT !.pc = "threw"]
       ELSE [@ EXCEPT !.n = @ + 1, !.out = Append(@, pushed)]]

\* generateConfigsForProject is called
MainGenerateConfigs ==
  /\ mpc = "configs"
  /\ tasks' = SpawnTasks("configs")
  /\ maps' = [maps EXCEPT !.projectIdsToConfigs = <<>>]
  /\ mpc' = "configsAwait"
  /\ UNCHANGED <<objVars, tracked, run, upVars, scimVars, environment, openaiKey,
                 mlocal, ds, exit, finished, db0, db>>

\* the n-th literal of `configs` in generateConfigs(project)
Config(project, n) ==
  [id |-> ConfigId(project, n), projectId |-> project,
   name |-> ConfigTemplates[n].name, dataType |-> ConfigTemplates[n].dataType,
   categories |-> ConfigTemplates[n].categories, isArchived |-> FALSE]

\* one pass of `for (const config of configs)` in generateConfigs
ConfigUpsert(p) ==
  /\ ProcessRunning
  /\ tasks[p].kind = "configs" /\ tasks[p].pc = "running"
  /\ tasks[p].n < Len(ConfigTemplates)
  /\ LET config == Config(p, tasks[p].n + 1)
         result == Upsert(db, "scoreConfig",
                      LAMBDA r : r.projectId = config.projectId /\ r.id = config.id,
                      config, LAMBDA r : [r EXCEPT !.id = config.id])
     IN TaskAwait(p, "scoreConfig", result, ConfigNameAndId(p, tasks[p].n + 1))
  /\ UNCHANGED <<taskFrame, maps>>

\* generateConfigs returns: projectIdsToConfigs.set(project.id, configNameAndId)
ConfigsTaskReturn(p) ==
  /\ ProcessRunning
  /\ tasks[p].kind = "configs" /\ tasks[p].pc = "running"
  /\ tasks[p].n = Len(ConfigTemplates)
  /\ maps' = [maps EXCEPT !.projectIdsToConfigs = MapSet(@, p, tasks[p].out)]
  /\ tasks' = [tasks EXCEPT ![p].pc = "returned"]
  /\ UNCHANGED <<taskFrame, db>>

\* `await generateConfigsForProject(...)` returns or throws
MainConfigsAwaited ==
  /\ mpc = "configsAwait"
  /\ \/ /\ Rejected("configs")
        /\ mpc' = "rejected" /\ mlocal' = mlocal
     \/ /\ Resolved("configs")
        /\ mpc' = "queues"
        /\ mlocal' = [mlocal EXCEPT !.configIdsAndNames = maps.projectIdsToConfigs]
  /\ UNCHANGED <<mainFrame, db>>

\* generateQueuesForProject is called
MainGenerateQueues ==
  /\ mpc = "queues"
  /\ tasks' = SpawnTasks("queues")
  /\ maps' = [maps EXCEPT !.projectIdsToQueues = <<>>]
  /\ mpc' = "queuesAwait"
  /\ UNCHANGED <<objVars, tracked, run, upVars, scimVars, environment, openaiKey,
                 mlocal, ds, exit, finished, db0, db>>

\* the `queue` literal of generateQueues
Queue(project, configIdsAndNames) ==
  [id |-> QueueId(project), name |-> "Default", description |-> "Default queue",
   scoreConfigIds |-> [c \in DOMAIN configIdsAndNames |-> configIdsAndNames[c].id],
   projectId |-> project]

\* a slip in the upsert: update: {}
QueueKept(row, queue) == row

\* update: { id: queue.id }
QueueUpdate(row, queue) == [row EXCEPT !.id = queue.id]

\* prisma.annotationQueue.upsert in generateQueues
QueueUpsert(p) ==
  /\ ProcessRunning
  /\ tasks[p].kind = "queues" /\ tasks[p].pc = "running"
  /\ tasks[p].n = 0
  /\ LET queue == Queue(p, GetOrEmpty(mlocal.configIdsAndNames, p))
         result == Upsert(db, "annotationQueue",
                      LAMBDA r : r.projectId = queue.projectId /\ r.name = queue.name,
                      queue, LAMBDA r : QueueUpdate(r, queue))
     IN TaskAwait(p, "annotationQueue", result, queue.id)
  /\ UNCHANGED <<taskFrame, maps>>

\* generateQueues returns [queue.id]: projectIdsToQueues.set(project.id, queueIds)
QueuesTaskReturn(p) ==
  /\ ProcessRunning
  /\ tasks[p].kind = "queues" /\ tasks[p].pc = "running"
  /\ tasks[p].n = 1
  /\ maps' = [maps EXCEPT !.projectIdsToQueues = MapSet(@, p, tasks[p].out)]
  /\ tasks' = [tasks EXCEPT ![p].pc = "returned"]
  /\ UNCHANGED <<taskFrame, db>>

\* `await generateQueuesForProject(...)` returns or throws
MainQueuesAwaited ==
  /\ mpc = "queuesAwait"
  /\ \/ /\ Rejected("queues")
        /\ mpc' = "rejected" /\ mlocal' = mlocal
     \/ /\ Resolved("queues")
        /\ mpc' = "prompts"
        /\ mlocal' = [mlocal EXCEPT !.queueIds = maps.projectIdsToQueues]
  /\ UNCHANGED <<mainFrame, db>>

\* generatePromptsForProject is called
MainGeneratePrompts ==
  /\ mpc = "prompts"
  /\ tasks' = SpawnTasks("prompts")
  /\ maps' = [maps EXCEPT !.promptIds = <<>>]
  /\ mpc' = "promptsAwait"
  /\ UNCHANGED <<objVars, tracked, run, upVars, scimVars, environment, openaiKey,
                 mlocal, ds, exit, finished, db0, db>>

\* A string that is concatenated is the tuple of its parts.
Text(str) == <<str>>

SEED_PROMPTS ==
  << [id |-> "prompt-123", name |-> "Prompt 1", version |-> 1],
     [id |-> "prompt-456", name |-> "Prompt 2", version |-> 1],
     [id |-> "prompt-789", name |-> "Prompt 3 by API", version |-> 1],
     [id |-> "prompt-abc", name |-> "Prompt 4", version |-> 1],
     [id |-> "folder-customer-prompt-1", name |-> "folder/customer/prompt-1",
      version |-> 1],
     [id |-> "folder-customer-prompt-2", name |-> "folder/customer/prompt-2",
      version |-> 1],
     [id |-> "folder-prompt-1", name |-> "folder/prompt-1", version |-> 1] >>

\* the upsert of SEED_PROMPTS[n] and the id pushed after it
SeedPromptWrite(project, n) ==
  LET prompt == SEED_PROMPTS[n]
      id == Text(prompt.id) \o Text(project)
  IN [where |-> [projectId |-> Text(prompt.id) \o Text(project),
                 name |-> prompt.name, version |-> prompt.version, id |-> id],
      create |-> [id |-> id, projectId |-> project, name |-> prompt.name,
                  version |-> prompt.version],
      setsId |-> FALSE,
      pushed |-> Text(prompt.id)]

\* the upsert of promptVersionsWithVariables[n]
VersionWrite(project, n) ==
  LET id == <<"prompt-", v4(<<project, "version", n>>)>>
      name == "Prompt 4 with variable and config"
  IN [where |-> [projectId |-> Text(project), name |-> name, version |-> n,
                 id |-> id],
      create |-> [id |-> id, projectId |-> project, name |-> name, version |-> n],
      setsId |-> TRUE,
      pushed |-> id]

\* the upsert of pass i of the loop over "Prompt with many versions"
ManyVersionsWrite(project, n) ==
  LET promptId == <<"prompt-", v4(<<project, "many", n>>)>>
      promptName == "Prompt with many versions"
  IN [where |-> [projectId |-> Text(project), name |-> promptName,
                 version |-> n, id |-> promptId],
      create |-> [id |-> promptId, projectId |-> project, name |-> promptName,
                  version |-> n],
      setsId |-> TRUE,
      pushed |-> promptId]

\* the upserts of generatePrompts(project), in order
PromptWrites(project) ==
  [n \in 1 .. Len(SEED_PROMPTS) |-> SeedPromptWrite(project, n)]
  \o [n \in 1 .. 3 |-> VersionWrite(project, n)]
  \o [n \in 1 .. ManyVersions |-> ManyVersionsWrite(project, n)]

\* where: { projectId_name_version: {...}, id }
PromptWhere(row, where) ==
  /\ Text(row.projectId) = where.projectId
  /\ row.name = where.name
  /\ row.version = where.version
  /\ row.id = where.id

\* one prisma.prompt.upsert of generatePrompts and the push after it
PromptUpsert(p) ==
  /\ ProcessRunning
  /\ tasks[p].kind = "prompts" /\ tasks[p].pc = "running"
  /\ tasks[p].n < Len(PromptWrites(p))
  /\ LET write == PromptWrites(p)[tasks[p].n + 1]
         result == Upsert(db, "prompt", LAMBDA r : PromptWhere(r, write.where),
                      write.create,
                      LAMBDA r : IF write.setsId
                                 THEN [r EXCEPT !.id = write.create.id] ELSE r)
     IN TaskAwait(p, "prompt", result, write.pushed)
  /\ UNCHANGED <<taskFrame, maps>>

\* generatePrompts returns: promptIds.set(project.id, promptIdsForProject)
PromptsTaskReturn(p) ==
  /\ ProcessRunning
  /\ tasks[p].kind = "prompts" /\ tasks[p].pc = "running"
  /\ tasks[p].n = Len(PromptWrites(p))
  /\ maps' = [maps EXCEPT !.promptIds = MapSet(@, p, tasks[p].out)]
  /\ tasks' = [tasks EXCEPT ![p].pc = "returned"]
  /\ UNCHANGED <<taskFrame, db>>

\* `await generatePromptsForProject(...)` returns or throws
MainPromptsAwaited ==
  /\ mpc = "promptsAwait"
  /\ \/ /\ Rejected("prompts")
        /\ mpc' = "rejected" /\ mlocal' = mlocal
     \/ /\ Resolved("prompts")
        /\ mpc' = "createObjects"
        /\ mlocal' = [mlocal EXCEPT !.promptIds = maps.promptIds]
  /\ UNCHANGED <<mainFrame, db>>

\* ------------------------------------------------------- the rest of main

\* environment === "load" ? LOAD_TRACE_VOLUME : 100
TraceVolumeOf(env) ==
  IF env = Some("load") THEN LOAD_TRACE_VOLUME ELSE ExamplesTraceVolume

\* createObjects(traceVolume, envTags, colorTags, project1, project2,
\* promptIds, queueIds, configIdsAndNames) is called
MainCreateObjects ==
  /\ mpc = "createObjects"
  /\ co = "idle"
  /\ traceVolume' = TraceVolumeOf(environment)
  /\ promptIds' = mlocal.promptIds
  /\ queueIds' = mlocal.queueIds
  /\ configParams' = mlocal.configIdsAndNames
  /\ co' = "trace"
  /\ mpc' = "uploadObjects"
  /\ UNCHANGED <<i, j, k, l, traces, observations, scores, sessions, events,
                 comments, queueItems, existingSpanIds, trace, span, returned,
                 tracked, run, upVars, scimVars, environment, openaiKey, mlocal,
                 tasks, maps, ds, exit, finished, db0, db>>

\* createObjects has returned: uploadObjects(sessions, comments, queueItems)
\* is called
MainUploadObjects ==
  /\ mpc = "uploadObjects"
  /\ co = "returned"
  /\ up = "idle"
  /\ upSessions' = returned.sessions
  /\ upComments' = returned.comments
  /\ upQueueItems' = returned.queueItems
  /\ up' = "called"
  /\ mpc' = "llmApiKeys"
  /\ UNCHANGED <<objVars, tracked, run, promises, ui, awaiting, logs, scimVars,
                 environment, openaiKey, mlocal, tasks, maps, ds, exit, finished,
                 db0, db>>

\* uploadObjects has returned: `if (OPENAI_API_KEY)` prisma.llmApiKeys.create
MainCreateLlmApiKey ==
  /\ mpc = "llmApiKeys"
  /\ up = "returned"
  /\ IF openaiKey
     THEN MainAwait(Create(db, "llmApiKeys",
                      [id |-> Cuid("llmApiKeys", <<"openai">>),
                       projectId |-> mlocal.project1.id, provider |-> "openai",
                       adapter |-> "openai"]),
                    "evalTemplate", mlocal)
     ELSE mpc' = "evalTemplate" /\ UNCHANGED <<mlocal, db>>
  /\ UNCHANGED mainFrame

\* prisma.evalTemplate.upsert of toxicity-template
MainUpsertEvalTemplate ==
  /\ mpc = "evalTemplate"
  /\ LET result == Upsert(db, "evalTemplate",
                      LAMBDA r : /\ r.projectId = mlocal.project1.id
                                 /\ r.name = "toxicity-template"
                                 /\ r.version = 1,
                      [id |-> Cuid("evalTemplate", <<"toxicity-template">>),
                       projectId |-> mlocal.project1.id,
                       name |-> "toxicity-template", version |-> 1],
                      Unchanged)
     IN MainAwait(result, "jobConfiguration",
                  [mlocal EXCEPT !.evalTemplate = result.row])
  /\ UNCHANGED mainFrame

\* prisma.jobConfiguration.upsert of toxicity-job
MainUpsertJobConfiguration ==
  /\ mpc = "jobConfiguration"
  /\ LET result == Upsert(db, "jobConfiguration", LAMBDA r : r.id = "toxicity-job",
                      [id |-> "toxicity-job",
                       evalTemplateId |-> mlocal.evalTemplate.id,
                       projectId |-> mlocal.project1.id, scoreName |-> "toxicity"],
                      Unchanged)
     IN MainAwait(result, "createDatasets", mlocal)
  /\ UNCHANGED mainFrame

\* createDatasets(project1, project2, observations) is called
MainCreateDatasets ==
  /\ mpc = "createDatasets"
  /\ ds' = [NoDatasets EXCEPT !.pc = "dataset", !.project = 1,
                              !.observations = returned.observations]
  /\ mpc' = "createDashboardsAndWidgets"
  /\ UNCHANGED <<objVars, tracked, run, upVars, scimVars, environment, openaiKey,
                 mlocal, tasks, maps, exit, finished, db0, db>>

\* what a step of createDatasets leaves alone
datasetFrame == <<objVars, tracked, run, upVars, scimVars, environment, openaiKey,
                  mpc, mlocal, tasks, maps, exit, finished, db0>>

\* `for (let datasetRunNumber = 0; datasetRunNumber < 5; ...)`
DatasetRunCount == 5
\* `for (let datasetNumber = 0; datasetNumber < 2; datasetNumber++)`
DatasetCount == 2

DatasetName(datasetNumber) == <<"demo-dataset-", datasetNumber>>
DatasetRunName(datasetRunNumber) == <<"demo-dataset-run-", datasetRunNumber>>

\* (await prisma.dataset.findFirst(...)) ?? (await prisma.dataset.create(...))
DatasetFindOrCreate ==
  /\ ds.pc = "dataset"
  /\ LET projectId == Projects[ds.project]
         datasetName == DatasetName(ds.datasetNumber)
         found == Rows(db, "dataset",
                       LAMBDA r : r.projectId = projectId /\ r.name = datasetName)
         created == [id |-> Cuid("dataset", <<ds.datasetNumber, projectId>>),
                     name |-> datasetName, projectId |-> projectId]
     IN IF found # {}
        THEN /\ ds' = [ds EXCEPT !.pc = "items", !.i = 0, !.datasetItemIds = <<>>,
                         !.dataset = db["dataset"][CHOOSE n \in found :
                                                     \A m \in found : n <= m]]
             /\ db' = db
        ELSE /\ ds' = [ds EXCEPT !.pc = "items", !.i = 0, !.datasetItemIds = <<>>,
                                 !.dataset = created]
             /\ db' = Create(db, "dataset", created).db
  /\ UNCHANGED datasetFrame

\* one pass of `for (let i = 0; i < 18; i++)`: the source observation is
\* drawn, and with one the dataset item is created
DatasetItem ==
  /\ ds.pc = "items"
  /\ ds.i < DatasetItems
  /\ \E useSource, withObservation \in BOOLEAN,
        pick \in 1 .. (IF ds.observations = <<>> THEN 1 ELSE Len(ds.observations)) :
       IF useSource /\ ds.observations # <<>>
       THEN LET sourceObservation == ds.observations[pick]
                datasetItem ==
                  [id |-> Cuid("datasetItem", <<ds.datasetNumber, ds.project, ds.i>>),
                   projectId |-> Projects[ds.project], datasetId |-> ds.dataset.id,
                   sourceTraceId |-> sourceObservation.traceId,
                   sourceObservationId |-> IF withObservation
                                           THEN sourceObservation.id ELSE Undefined]
            IN /\ db' = Create(db, "datasetItem", datasetItem).db
               /\ ds' = [ds EXCEPT !.i = @ + 1,
                                   !.datasetItemIds = Append(@, datasetItem.id)]
       ELSE /\ db' = db
            /\ ds' = [ds EXCEPT !.i = @ + 1]
  /\ UNCHANGED datasetFrame

\* the item loop ends: the loop over the runs begins
DatasetItemsDone ==
  /\ ds.pc = "items"
  /\ ~(ds.i < DatasetItems)
  /\ ds' = [ds EXCEPT !.pc = "runs", !.datasetRunNumber = 0]
  /\ UNCHANGED <<datasetFrame, db>>

\* one pass of the loop over the runs: the run is upserted and a run item
\* is created for every dataset item, of a drawn observation of the project
DatasetRun ==
  /\ ds.pc = "runs"
  /\ ds.datasetRunNumber < DatasetRunCount
  /\ LET projectId == Projects[ds.project]
         name == DatasetRunName(ds.datasetRunNumber)
         run0 == Upsert(db, "datasetRuns",
                    LAMBDA r : /\ r.datasetId = ds.dataset.id
                               /\ r.projectId = projectId
                               /\ r.name = name,
                    [id |-> Cuid("datasetRuns",
                                 <<ds.datasetNumber, projectId, ds.datasetRunNumber>>),
                     projectId |-> projectId, name |-> name,
                     datasetId |-> ds.dataset.id],
                    Unchanged)
         relevantObservations ==
           SelectSeq(ds.observations, LAMBDA o : o.projectId = projectId)
     IN IF relevantObservations = <<>>
        THEN db' = run0.db
        ELSE \E picks \in [DOMAIN ds.datasetItemIds -> DOMAIN relevantObservations],
                withObservation \in [DOMAIN ds.datasetItemIds -> BOOLEAN] :
               db' = CreateMany(run0.db, "datasetRunItems",
                       [n \in DOMAIN ds.datasetItemIds |->
                          [projectId |-> projectId,
                           datasetItemId |-> ds.datasetItemIds[n],
                           traceId |-> relevantObservations[picks[n]].traceId,
                           observationId |->
                             IF withObservation[n]
                             THEN relevantObservations[picks[n]].id ELSE Undefined,
                           datasetRunId |-> run0.row.id]])
  /\ ds' = [ds EXCEPT !.datasetRunNumber = @ + 1]
  /\ UNCHANGED datasetFrame

\* the loop over the runs ends: the next project, the next dataset number,
\* or the return
DatasetNext ==
  /\ ds.pc = "runs"
  /\ ~(ds.datasetRunNumber < DatasetRunCount)
  /\ ds' = IF ds.project < Len(Projects)
           THEN [ds EXCEPT !.pc = "dataset", !.project = @ + 1]
           ELSE IF ds.datasetNumber + 1 < DatasetCount
           THEN [ds EXCEPT !.pc = "dataset", !.project = 1,
                           !.datasetNumber = @ + 1]
           ELSE [ds EXCEPT !.pc = "returned"]
  /\ UNCHANGED <<datasetFrame, db>>

\* createDatasets has returned: createDashboardsAndWidgets is called, and
\* one pass of `for (const project of projects)`: the three upserts
DashboardsAndWidgets ==
  /\ mpc = "createDashboardsAndWidgets"
  /\ ds.pc = "returned"
  /\ LET project == Projects[mlocal.project + 1]
         widget == Upsert(db, "dashboardWidget", LAMBDA r : r.id = "cabc",
                      [id |-> "cabc", projectId |-> project, name |-> "Trace Counts"],
                      Unchanged)
         widget2 == Upsert(widget.db, "dashboardWidget", LAMBDA r : r.id = "cdef",
                      [id |-> "cdef", projectId |-> project,
                       name |-> "Observation Latencies by Model"],
                      Unchanged)
         dashboard == Upsert(widget2.db, "dashboard",
                      LAMBDA r : r.id = "seed-dashboard",
                      [id |-> "seed-dashboard", projectId |-> project,
                       name |-> "Performance Overview",
                       widgets |-> <<widget.row.id, widget2.row.id>>],
                      Unchanged)
     IN MainAwait(dashboard,
                  IF mlocal.project + 1 < Len(Projects)
                  THEN "createDashboardsAndWidgets" ELSE "llmSchema",
                  [mlocal EXCEPT !.project = @ + 1])
  /\ UNCHANGED mainFrame

\* prisma.llmSchema.createMany of get_weather and calculator
MainCreateLlmSchemas ==
  /\ mpc = "llmSchema"
  /\ db' = CreateMany(db, "llmSchema",
             << [id |-> Cuid("llmSchema", <<"get_weather">>),
                 projectId |-> mlocal.project1.id, name |-> "get_weather"],
                [id |-> Cuid("llmSchema", <<"calculator">>),
                 projectId |-> mlocal.project1.id, name |-> "calculator"] >>)
  /\ mpc' = "resolved"
  /\ UNCHANGED <<mainFrame, mlocal>>

\* main().then(...): prisma.$disconnect(), redis?.disconnect(); the process
\* ends when nothing is left to run
ExitThen ==
  /\ mpc = "resolved"
  /\ exit' = [exit EXCEPT !.prisma = @ + 1, !.redis = @ + 1]
  /\ finished' = Append(finished, [environment |-> environment, code |-> 0])
  /\ mpc' = "ended"
  /\ UNCHANGED <<objVars, tracked, run, upVars, scimVars, environment, openaiKey,
                 mlocal, tasks, maps, ds, db0, db>>

\* main().catch(...): logger.error(e) and `await prisma.$disconnect()`
ExitCatch ==
  /\ mpc = "rejected"
  /\ exit' = [exit EXCEPT !.prisma = @ + 1]
  /\ mpc' = "disconnected"
  /\ UNCHANGED <<objVars, tracked, run, upVars, scimVars, environment, openaiKey,
                 mlocal, tasks, maps, ds, finished, db0, db>>

\* the rest of the catch handler: redis?.disconnect() and process.exit(1)
ExitCatchExit ==
  /\ mpc = "disconnected"
  /\ exit' = [exit EXCEPT !.redis = @ + 1, !.code = Some(1)]
  /\ finished' = Append(finished, [environment |-> environment, code |-> 1])
  /\ mpc' = "exited"
  /\ UNCHANGED <<objVars, tracked, run, upVars, scimVars, environment, openaiKey,
                 mlocal, tasks, maps, ds, db0, db>>

\* the script is run again, against the database the last run left
RunAgain ==
  /\ mpc \in {"ended", "exited"}
  /\ run < MaxRuns
  /\ run' = run + 1
  /\ environment' \in Environments
  /\ mpc' = "user1"
  /\ mlocal' = NoMainLocals /\ tasks' = NoTasks /\ maps' = NoMaps
  /\ ds' = NoDatasets /\ exit' = NoExit
  /\ db0' = db
  /\ traceVolume' = 0
  /\ i' = 0 /\ j' = 0 /\ k' = 0 /\ l' = 0
  /\ co' = "idle"
  /\ traces' = <<>> /\ observations' = <<>> /\ scores' = <<>> /\ sessions' = <<>>
  /\ events' = <<>> /\ comments' = <<>> /\ queueItems' = <<>>
  /\ existingSpanIds' = <<>>
  /\ trace' = Undefined /\ span' = Undefined /\ returned' = Undefined
  /\ promptIds' = <<>> /\ queueIds' = <<>> /\ configParams' = <<>>
  /\ upSessions' = <<>> /\ upComments' = <<>> /\ upQueueItems' = <<>>
  /\ promises' = <<>> /\ ui' = 0 /\ up' = "idle" /\ awaiting' = FALSE /\ logs' = <<>>
  /\ UNCHANGED <<tracked, scimVars, openaiKey, finished, db>>

NextSeed ==
  \/ MainUpsertUser1
  \/ MainUpsertUser2
  \/ MainUpsertOrganization
  \/ MainUpsertProject1
  \/ MainUpsertOrgMembership1
  \/ MainUpsertOrgMembership2
  \/ MainUpsertProjectMembership
  \/ MainUpsertSummaryPrompt
  \/ MainCreateApiKey
  \/ MainEnvironmentGuard
  \/ MainUpsertOrganization2
  \/ MainUpsertProject2
  \/ MainUpsertOrgMembership3
  \/ MainCreateApiKey2
  \/ MainGenerateConfigs
  \/ \E p \in Range(Projects) : ConfigUpsert(p)
  \/ \E p \in Range(Projects) : ConfigsTaskReturn(p)
  \/ MainConfigsAwaited
  \/ MainGenerateQueues
  \/ \E p \in Range(Projects) : QueueUpsert(p)
  \/ \E p \in Range(Projects) : QueuesTaskReturn(p)
  \/ MainQueuesAwaited
  \/ MainGeneratePrompts
  \/ \E p \in Range(Projects) : PromptUpsert(p)
  \/ \E p \in Range(Projects) : PromptsTaskReturn(p)
  \/ MainPromptsAwaited
  \/ MainCreateObjects
  \/ NextObjects
  \/ MainUploadObjects
  \/ NextUpload
  \/ MainCreateLlmApiKey
  \/ MainUpsertEvalTemplate
  \/ MainUpsertJobConfiguration
  \/ MainCreateDatasets
  \/ DatasetFindOrCreate
  \/ DatasetItem
  \/ DatasetItemsDone
  \/ DatasetRun
  \/ DatasetNext
  \/ DashboardsAndWidgets
  \/ MainCreateLlmSchemas
  \/ ExitThen
  \/ ExitCatch
  \/ ExitCatchExit
  \/ RunAgain

\* --------------------------------------------------- the SCIM Users handler

\* A string that the handler lowercases, parses or matches is a tuple of
\* characters.  The text `userName eq ` of a filter is one character of that
\* alphabet, in two spellings.
ErrorSchema == "urn:ietf:params:scim:api:messages:2.0:Error"
ListResponseSchema == "urn:ietf:params:scim:api:messages:2.0:ListResponse"
UserSchema == "urn:ietf:params:scim:schemas:core:2.0:User"

Quote == "\""
UserNameEq == "userName eq "
UserNameEqUpper == "USERNAME EQ "

\* String.prototype.toLowerCase, character by character
LowerChar(c) ==
  CASE c = "A" -> "a"
    [] c = "B" -> "b"
    [] c = "C" -> "c"
    [] c = "X" -> "x"
    [] c = UserNameEq -> "username eq "
    [] c = UserNameEqUpper -> "username eq "
    [] OTHER -> c

toLowerCase(str) == [n \in DOMAIN str |-> LowerChar(str[n])]

DigitChars == <<"0", "1", "2", "3", "4", "5", "6", "7", "8", "9">>
IsDigit(c) == \E d \in DOMAIN DigitChars : DigitChars[d] = c
DigitValue(c) == (CHOOSE d \in DOMAIN DigitChars : DigitChars[d] = c) - 1

RECURSIVE DigitsValue(_)
DigitsValue(str) ==
  IF str = <<>> THEN 0
  ELSE 10 * DigitsValue(SubSeq(str, 1, Len(str) - 1)) + DigitValue(str[Len(str)])

\* the leading digits of str
LeadingDigits(str) ==
  LET stop == {n \in DOMAIN str : ~IsDigit(str[n])}
      upto == IF stop = {} THEN Len(str)
              ELSE (CHOOSE n \in stop : \A m \in stop : n <= m) - 1
  IN SubSeq(str, 1, upto)

\* parseInt(str, 10) || fallback: NaN (no leading digits) and 0 are falsy
ParseIntOr(str, fallback) ==
  LET negative == str # <<>> /\ str[1] = "-"
      signed == str # <<>> /\ str[1] \in {"-", "+"}
      digits == LeadingDigits(IF signed THEN SubSeq(str, 2, Len(str)) ELSE str)
      value == IF negative THEN 0 - DigitsValue(digits) ELSE DigitsValue(digits)
  IN IF digits = <<>> \/ value = 0 THEN fallback ELSE value

\* filter.match(/userName eq "([^"]+)"/i): the places where the pattern
\* matches, as <<first, last>> of the group
FilterMatches(text) ==
  {pq \in (DOMAIN text) \X (DOMAIN text) :
     /\ pq[1] >= 3 /\ pq[1] <= pq[2] /\ pq[2] < Len(text)
     /\ LowerChar(text[pq[1] - 2]) = "username eq "
     /\ text[pq[1] - 1] = Quote
     /\ text[pq[2] + 1] = Quote
     /\ \A n \in pq[1] .. pq[2] : text[n] # Quote}

\* a slip in GET: the filter is never applied
WhereAny(filter) == [any |-> TRUE, email |-> <<>>]

\* the `whereClause` of GET: {} or { email: match[1].toLowerCase() }
WhereClause(filter) ==
  IF filter.kind = "string" /\ filter.text # <<>> /\ FilterMatches(filter.text) # {}
  THEN LET hits == FilterMatches(filter.text)
           first == CHOOSE pq \in hits : \A other \in hits : pq[1] <= other[1]
       IN [any |-> FALSE,
           email |-> toLowerCase(SubSeq(filter.text, first[1], first[2]))]
  ELSE [any |-> TRUE, email |-> <<>>]

\* const { filter, startIndex = 1, count = 100 } = req.query and the parses
ParsedStartIndex(query) ==
  ParseIntOr(IF query.startIndex = Undefined THEN <<"1">> ELSE query.startIndex, 1)
ParsedCount(query) ==
  ParseIntOr(IF query.count = Undefined THEN <<"1", "0", "0">> ELSE query.count, 100)

\* the user of a membership
UserOf(d, membership) ==
  LET hits == {n \in DOMAIN d["user"] : d["user"][n].id = membership.userId}
  IN d["user"][CHOOSE n \in hits : TRUE]

\* a slip in the where of both GET queries and of the existence check: no orgId
MembersOfAnyOrg(d, orgId, where) ==
  LET Matches(m) == where.any \/ UserOf(d, m).email = where.email
  IN SelectSeq(d["organizationMembership"], Matches)

\* where: { user: whereClause, orgId }
MembersWhere(d, orgId, where) ==
  LET Matches(m) == /\ m.orgId = orgId
                    /\ where.any \/ UserOf(d, m).email = where.email
  IN SelectSeq(d["organizationMembership"], Matches)

\* skip and take of findMany
Page(rows, skip, take) ==
  SubSeq(rows, skip + 1, IF skip + take < Len(rows) THEN skip + take ELSE Len(rows))

\* the SCIM shape of a user
ScimUser(user) ==
  [schemas |-> <<UserSchema>>, id |-> user.id, userName |-> user.email,
   name |-> [formatted |-> user.name],
   emails |-> << [primary |-> TRUE, value |-> user.email, type |-> "work"] >>,
   meta |-> [resourceType |-> "User"]]

\* res.status(405).json(...)
MethodNotAllowed ==
  [http |-> 405,
   body |-> [schemas |-> <<ErrorSchema>>, detail |-> "Method not allowed",
             status |-> 405]]

\* res.status(401).json(...)
Unauthorized(error) ==
  [http |-> 401,
   body |-> [schemas |-> <<ErrorSchema>>, detail |-> error, status |-> 401]]

\* res.status(403).json(...)
Forbidden ==
  [http |-> 403,
   body |-> [schemas |-> <<ErrorSchema>>,
             detail |-> "Invalid API key. Organization-scoped API key required for this operation.",
             status |-> 403]]

\* res.status(200).json(...) of GET
ListResponse(totalCount, parsedStartIndex, scimUsers) ==
  [http |-> 200,
   body |-> [schemas |-> <<ListResponseSchema>>, totalResults |-> totalCount,
             startIndex |-> parsedStartIndex, itemsPerPage |-> Len(scimUsers),
             Resources |-> scimUsers]]

\* res.status(500).json(...) in the catch of GET and in the catch of POST
InternalServerError ==
  [http |-> 500,
   body |-> [schemas |-> <<ErrorSchema>>, detail |-> "Internal server error",
             status |-> 500]]

\* res.status(400).json(...) for a body that JSON.parse rejects
InvalidJsonBody ==
  [http |-> 400,
   body |-> [schemas |-> <<ErrorSchema>>, detail |-> "Invalid JSON body",
             status |-> 400]]

\* res.status(400).json(...) for a missing userName
UserNameRequired ==
  [http |-> 400,
   body |-> [schemas |-> <<ErrorSchema>>, detail |-> "userName is required",
             status |-> 400]]

\* res.status(400).json(...) for roles the schema rejects
InvalidRoles(roles) ==
  [http |-> 400,
   body |-> [schemas |-> <<ErrorSchema>>,
             detail |-> <<"Invalid roles provided: ", roles.items,
                          ", must be one of OWNER, ADMIN, MEMBER, VIEWER, NONE">>,
             status |-> 400]]

\* a slip in the 409 literal: status: 400
UserExistsWithStatus400 ==
  [http |-> 409,
   body |-> [schemas |-> <<ErrorSchema>>,
             detail |-> "User with this userName already exists", status |-> 400]]

\* res.status(409).json(...)
UserExists ==
  [http |-> 409,
   body |-> [schemas |-> <<ErrorSchema>>,
             detail |-> "User with this userName already exists", status |-> 409]]

\* res.status(201).json(...)
UserCreated(user) == [http |-> 201, body |-> ScimUser(user)]

RoleNames == {"OWNER", "ADMIN", "MEMBER", "VIEWER", "NONE"}

\* roles && Array.isArray(roles) && roles.length > 0
HasRoles(roles) == roles.kind = "array" /\ Len(roles.items) > 0

\* z.array(z.enum([...])).safeParse(roles).success
RolesParse(roles) == \A n \in DOMAIN roles.items : roles.items[n] \in RoleNames

\* a || b on optional strings
OrElse(a, b) == IF a # Undefined THEN a ELSE b

\* a slip in the order of the checks of POST: roles before userName
PostValidatedRolesFirst(body) ==
  IF body.kind = "text" THEN [rejected |-> TRUE, response |-> InvalidJsonBody]
  ELSE IF body.kind = "none" THEN [rejected |-> TRUE, response |-> InternalServerError]
  ELSE IF HasRoles(body.value.roles) /\ ~RolesParse(body.value.roles)
       THEN [rejected |-> TRUE, response |-> InvalidRoles(body.value.roles)]
  ELSE IF body.value.userName = <<>> THEN [rejected |-> TRUE, response |-> UserNameRequired]
  ELSE [rejected |-> FALSE, response |-> <<>>]

\* The synchronous part of POST up to the first query: the response it
\* sends, or the userName and role it goes on with.
PostValidated(body) ==
  IF body.kind = "text" THEN [rejected |-> TRUE, response |-> InvalidJsonBody]
  ELSE IF body.kind = "none" THEN [rejected |-> TRUE, response |-> InternalServerError]
  ELSE IF body.value.userName = <<>> THEN [rejected |-> TRUE, response |-> UserNameRequired]
  ELSE IF HasRoles(body.value.roles) /\ ~RolesParse(body.value.roles)
       THEN [rejected |-> TRUE, response |-> InvalidRoles(body.value.roles)]
  ELSE [rejected |-> FALSE, response |-> <<>>]

\* a slip in the role of POST: the roles of the body are ignored
RoleNone(body) == "NONE"

RoleOf(body) ==
  IF HasRoles(body.value.roles) THEN body.value.roles.items[1] ELSE "NONE"

NoOrgId == ""

NoLocals ==
  [parsedStartIndex |-> 0, parsedCount |-> 0,
   where |-> [any |-> TRUE, email |-> <<>>], totalCount |-> 0,
   userName |-> <<>>, role |-> "NONE", user |-> <<>>]

\* res.status(...).json(...); return
Respond(r, response) ==
  /\ responses' = [responses EXCEPT ![r] = Append(@, response)]
  /\ hpc' = [hpc EXCEPT ![r] = "done"]

\* runMiddleware and the method check
ScimBegin(r) ==
  /\ hpc[r] = "start"
  /\ IF requests[r].method \notin {"GET", "POST"}
     THEN Respond(r, MethodNotAllowed)
     ELSE /\ hpc' = [hpc EXCEPT ![r] = "auth"]
          /\ UNCHANGED responses
  /\ UNCHANGED <<objVars, tracked, run, upVars, seedVars, requests, hlocal, db>>

\* verifyAuthHeaderAndReturnScope has answered: the two checks of the key,
\* then the synchronous part of GET or of POST up to its first query
ScimAuthorized(r) ==
  /\ hpc[r] = "auth"
  /\ LET req == requests[r]
         auth == req.auth
     IN IF ~auth.validKey
        THEN Respond(r, Unauthorized(auth.error)) /\ UNCHANGED hlocal
        ELSE IF auth.scope.accessLevel # "organization" \/ auth.scope.orgId = NoOrgId
        THEN Respond(r, Forbidden) /\ UNCHANGED hlocal
        ELSE IF req.method = "GET"
        THEN /\ hlocal' = [hlocal EXCEPT ![r] =
                 [@ EXCEPT !.parsedStartIndex = ParsedStartIndex(req.query),
                           !.parsedCount = ParsedCount(req.query),
                           !.where = WhereClause(req.query.filter)]]
             /\ hpc' = [hpc EXCEPT ![r] = "count"]
             /\ UNCHANGED responses
        ELSE IF PostValidated(req.body).rejected
        THEN Respond(r, PostValidated(req.body).response) /\ UNCHANGED hlocal
        ELSE /\ hlocal' = [hlocal EXCEPT ![r] =
                 [@ EXCEPT !.userName = req.body.value.userName,
                           !.role = RoleOf(req.body)]]
             /\ hpc' = [hpc EXCEPT ![r] = "findExisting"]
             /\ UNCHANGED responses
  /\ UNCHANGED <<objVars, tracked, run, upVars, seedVars, requests, db>>

OrgOf(r) == requests[r].auth.scope.orgId

\* prisma.organizationMembership.count
ScimCount(r) ==
  /\ hpc[r] = "count"
  /\ IF requests[r].fault = "count"
     THEN Respond(r, InternalServerError) /\ UNCHANGED hlocal
     ELSE /\ hlocal' = [hlocal EXCEPT ![r].totalCount =
                          Len(MembersWhere(db, OrgOf(r), hlocal[r].where))]
          /\ hpc' = [hpc EXCEPT ![r] = "findMany"]
          /\ UNCHANGED responses
  /\ UNCHANGED <<objVars, tracked, run, upVars, seedVars, requests, db>>

\* prisma.organizationMembership.findMany, the transformation and the 200
ScimFindMany(r) ==
  /\ hpc[r] = "findMany"
  /\ IF requests[r].fault = "findMany" \/ hlocal[r].parsedStartIndex - 1 < 0
     THEN Respond(r, InternalServerError)
     ELSE LET userMapping == Page(MembersWhere(db, OrgOf(r), hlocal[r].where),
                                  hlocal[r].parsedStartIndex - 1,
                                  hlocal[r].parsedCount)
              scimUsers == [n \in DOMAIN userMapping |->
                              ScimUser(UserOf(db, userMapping[n]))]
          IN Respond(r, ListResponse(hlocal[r].totalCount,
                                     hlocal[r].parsedStartIndex, scimUsers))
  /\ UNCHANGED <<objVars, tracked, run, upVars, seedVars, requests, hlocal, db>>

\* a slip: POST without the check for an existing member
ScimFindExistingSkipped(r) ==
  /\ hpc[r] = "findExisting"
  /\ hpc' = [hpc EXCEPT ![r] = "upsert"]
  /\ UNCHANGED <<objVars, tracked, run, upVars, seedVars, requests, hlocal, db,
                 responses>>

\* "Check if user already exists": findMany by email and orgId, and the 409
ScimFindExisting(r) ==
  /\ hpc[r] = "findExisting"
  /\ IF requests[r].fault = "findExisting"
     THEN Respond(r, InternalServerError)
     ELSE IF MembersWhere(db, OrgOf(r),
                          [any |-> FALSE, email |-> hlocal[r].userName]) # <<>>
     THEN Respond(r, UserExists)
     ELSE /\ hpc' = [hpc EXCEPT ![r] = "upsert"]
          /\ UNCHANGED responses
  /\ UNCHANGED <<objVars, tracked, run, upVars, seedVars, requests, hlocal, db>>

\* the row prisma.user.upsert creates; its id is a new cuid
NewUser(r, value) ==
  [id |-> <<"user", "scim", r>>,
   email |-> toLowerCase(value.userName),
   name |-> OrElse(value.nameFormatted, value.displayName)]

\* the row prisma.organizationMembership.create creates
NewMembership(r, user, orgId, role) ==
  [id |-> <<"membership", "scim", r>>, userId |-> user.id, orgId |-> orgId,
   role |-> role]

\* prisma.user.upsert({ where: { email }, create, update: {} })
ScimUpsertUser(r) ==
  /\ hpc[r] = "upsert"
  /\ IF requests[r].fault = "upsert"
     THEN Respond(r, InternalServerError) /\ UNCHANGED <<hlocal, db>>
     ELSE LET hits == {n \in DOMAIN db["user"] :
                         db["user"][n].email = toLowerCase(hlocal[r].userName)}
          IN /\ IF hits = {}
                THEN /\ db' = CreateMany(db, "user",
                                      <<NewUser(r, requests[r].body.value)>>)
                     /\ hlocal' = [hlocal EXCEPT ![r].user =
                                     NewUser(r, requests[r].body.value)]
                ELSE /\ db' = db
                     /\ hlocal' = [hlocal EXCEPT ![r].user =
                                     db["user"][CHOOSE n \in hits : TRUE]]
             /\ hpc' = [hpc EXCEPT ![r] = "create"]
             /\ UNCHANGED responses
  /\ UNCHANGED <<objVars, tracked, run, upVars, seedVars, requests>>

\* the unique key orgId_userId of organizationMembership
MembershipExists(d, orgId, userId) ==
  \E n \in DOMAIN d["organizationMembership"] :
    /\ d["organizationMembership"][n].orgId = orgId
    /\ d["organizationMembership"][n].userId = userId

\* prisma.organizationMembership.create and the 201; a second membership of
\* the same user in the same organization is rejected by the database
ScimCreateMembership(r) ==
  /\ hpc[r] = "create"
  /\ IF \/ requests[r].fault = "create"
        \/ MembershipExists(db, OrgOf(r), hlocal[r].user.id)
     THEN Respond(r, InternalServerError) /\ UNCHANGED db
     ELSE /\ db' = CreateMany(db, "organizationMembership",
                     <<NewMembership(r, hlocal[r].user, OrgOf(r),
                                     hlocal[r].role)>>)
          /\ Respond(r, UserCreated(hlocal[r].user))
  /\ UNCHANGED <<objVars, tracked, run, upVars, seedVars, requests, hlocal>>

NextScim ==
  \E r \in DOMAIN requests :
    \/ ScimBegin(r)
    \/ ScimAuthorized(r)
    \/ ScimCount(r)
    \/ ScimFindMany(r)
    \/ ScimFindExisting(r)
    \/ ScimUpsertUser(r)
    \/ ScimCreateMembership(r)

\* ---------------------------------------------------------- specifications

\* the n-th row of an argument of uploadObjects, of the shape createObjects builds
SessionRow(n) == [id |-> <<"session", (n - 1) \div 2>>, projectId |-> ProjectOf(n - 1)]
CommentRow(n) ==
  [projectId |-> ProjectOf(n - 1), objectId |-> <<"trace", v4(<<n - 1>>)>>,
   objectType |-> "TRACE"]
QueueItemRow(n) ==
  [queueId |-> QueueId(ProjectOf(n - 1)), objectId |-> <<"trace", v4(<<n - 1>>)>>,
   objectType |-> "TRACE", projectId |-> ProjectOf(n - 1)]

\* createObjects is not running
ObjectsIdle ==
  /\ traceVolume = 0
  /\ i = 0 /\ j = 0 /\ k = 0 /\ l = 0
  /\ co = "idle"
  /\ traces = <<>> /\ observations = <<>> /\ scores = <<>> /\ sessions = <<>>
  /\ events = <<>> /\ comments = <<>> /\ queueItems = <<>>
  /\ existingSpanIds = <<>>
  /\ trace = Undefined /\ span = Undefined /\ returned = Undefined
  /\ promptIds = <<>> /\ queueIds = <<>> /\ configParams = <<>>

\* uploadObjects is not running
UploadIdle ==
  /\ upSessions = <<>> /\ upComments = <<>> /\ upQueueItems = <<>>
  /\ promises = <<>> /\ ui = 0 /\ up = "idle" /\ awaiting = FALSE /\ logs = <<>>

\* the script is not running
SeedIdle ==
  /\ environment = Undefined /\ openaiKey = FALSE /\ mpc = "idle"
  /\ mlocal = <<>> /\ tasks = <<>> /\ maps = <<>> /\ ds = <<>> /\ exit = <<>>
  /\ finished = <<>> /\ db0 = <<>>

\* no request is being handled
ScimIdle ==
  /\ requests = <<>> /\ hpc = <<>> /\ hlocal = <<>> /\ responses = <<>>

\* the collections createObjects records under each specification
LinkView == {"traces", "observations", "events", "queueItems"}
TraceScoreView == {"traces", "traceScores"}
GenerationScoreView == {"traces", "generationScores"}

InitCreateObjects(volumes, views) ==
  /\ traceVolume \in volumes
  /\ tracked \in views
  /\ run = 1
  /\ i = 0 /\ j = 0 /\ k = 0 /\ l = 0
  /\ co = "trace"
  /\ traces = <<>> /\ observations = <<>> /\ scores = <<>> /\ sessions = <<>>
  /\ events = <<>> /\ comments = <<>> /\ queueItems = <<>>
  /\ existingSpanIds = <<>>
  /\ trace = Undefined /\ span = Undefined /\ returned = Undefined
  /\ promptIds = [p \in Range(Projects) |-> <<>>]
  /\ queueIds = [p \in Range(Projects) |-> <<QueueId(p)>>]
  /\ configParams = [p \in Range(Projects) |-> GeneratedConfigs(p)]
  /\ UploadIdle
  /\ ScimIdle
  /\ SeedIdle
  /\ db = EmptyDb

\* createObjects alone, links recorded
SpecObjects ==
  InitCreateObjects(0 .. MaxTraceVolume, {LinkView}) /\ [][NextObjects]_vars

InitScores ==
  \/ InitCreateObjects(0 .. MaxTraceVolume, {TraceScoreView})
  \/ InitCreateObjects(0 .. MaxScoredGenerationTraces, {GenerationScoreView})

\* createObjects runs on: a loop that can take a step takes one
SpecObjectsFair == SpecObjects /\ WF_vars(NextObjects)

\* createObjects alone, scores recorded
SpecScores == InitScores /\ [][NextObjects]_vars

SessionView == {"traces", "sessions"}

\* createObjects alone, sessions recorded
SpecSessions ==
  InitCreateObjects(0 .. MaxSessionTraces, {SessionView}) /\ [][NextObjects]_vars

\* timestamps are recorded, of the rows of the last push of each collection
TimeView == {"traces", "observations", "events", "times", "latest"}

\* createObjects alone, timestamps recorded
SpecTimes ==
  InitCreateObjects(0 .. MaxTimedTraces, {TimeView}) /\ [][NextObjects]_vars

\* a database that holds the first session already
SessionDb == [EmptyDb EXCEPT !["traceSession"] = << SessionRow(1) >>]

InitUpload ==
  /\ ObjectsIdle
  /\ ScimIdle
  /\ SeedIdle
  /\ tracked = {}
  /\ run = 1
  /\ db \in {EmptyDb, SessionDb}
  /\ \E ns \in 0 .. MaxUploadSessions, nc \in 0 .. MaxUploadComments,
        nq \in 0 .. MaxUploadQueueItems :
       /\ upSessions = [n \in 1 .. ns |-> SessionRow(n)]
       /\ upComments = [n \in 1 .. nc |-> CommentRow(n)]
       /\ upQueueItems = [n \in 1 .. nq |-> QueueItemRow(n)]
  /\ promises = <<>> /\ ui = 0 /\ up = "called" /\ awaiting = FALSE /\ logs = <<>>

\* uploadObjects alone
SpecUpload == InitUpload /\ [][NextUpload]_vars

\* The requests the handler is given.  Request 1 ranges over every shape of
\* method, key, query and body; the requests that run beside it are POSTs
\* and a GET with a valid key of org-a.
MaxRequests == 2

A_x == <<"a", "@", "x">>
B_x == <<"b", "@", "x">>
C_x == <<"c", "@", "x">>
UpperA_x == <<"A", "@", "x">>
UpperC_x == <<"C", "@", "x">>

OrgKey(orgId) ==
  [validKey |-> TRUE, error |-> "",
   scope |-> [accessLevel |-> "organization", orgId |-> orgId]]

Auths ==
  {OrgKey("org-a"), OrgKey("org-b"), OrgKey(NoOrgId),
   [validKey |-> TRUE, error |-> "",
    scope |-> [accessLevel |-> "project", orgId |-> "org-a"]],
   [validKey |-> FALSE, error |-> "Invalid credentials",
    scope |-> [accessLevel |-> "", orgId |-> NoOrgId]]}

NoRoles == [kind |-> "undefined", items |-> <<>>]
RolesArray(items) == [kind |-> "array", items |-> items]

Roles ==
  {NoRoles, RolesArray(<<>>), RolesArray(<<"ADMIN">>), RolesArray(<<"ROOT">>),
   RolesArray(<<"MEMBER", "ROOT">>), [kind |-> "string", items |-> <<"A">>]}

NoFilter == [kind |-> "undefined", text |-> <<>>]
FilterText(text) == [kind |-> "string", text |-> text]

Filters ==
  {NoFilter, [kind |-> "array", text |-> <<>>], FilterText(<<>>),
   FilterText(<<UserNameEq, Quote>> \o A_x \o <<Quote>>),
   FilterText(<<UserNameEqUpper, Quote>> \o UpperA_x \o <<Quote>>),
   FilterText(<<"(", UserNameEq, Quote>> \o C_x \o <<Quote, ")">>),
   FilterText(<<UserNameEq, Quote, Quote>>),
   FilterText(<<"e", "q">> \o A_x)}

StartIndexes == {Undefined, <<"2">>, <<"0">>, <<"-", "1">>, <<"x">>, <<"1", "x">>}
Counts == {Undefined, <<"1">>, <<"0">>, <<"1", "0">>}

NoQuery == [filter |-> NoFilter, startIndex |-> Undefined, count |-> Undefined]

UserBody(userName, roles, nameFormatted, displayName) ==
  [userName |-> userName, roles |-> roles, nameFormatted |-> nameFormatted,
   displayName |-> displayName]

ObjectBody(value) == [kind |-> "object", value |-> value]
NoBody == [kind |-> "none", value |-> UserBody(<<>>, NoRoles, Undefined, Undefined)]

Bodies ==
  {ObjectBody(UserBody(u, roles, Undefined, Some("Cy"))) :
     u \in {<<>>, A_x, UpperA_x, B_x, C_x}, roles \in Roles}
  \cup {ObjectBody(UserBody(UpperC_x, NoRoles, f, d)) :
          f \in {Undefined, Some("Cy Formatted")}, d \in {Undefined, Some("Cy")}}
  \cup {[kind |-> "json", value |-> UserBody(C_x, RolesArray(<<"VIEWER">>),
                                            Undefined, Undefined)],
        [kind |-> "text", value |-> UserBody(<<>>, NoRoles, Undefined, Undefined)],
        NoBody}

Faults == {"none", "count", "findMany", "findExisting", "upsert", "create"}

Request(method, auth, query, body, fault) ==
  [method |-> method, auth |-> auth, query |-> query, body |-> body,
   fault |-> fault]

NewUserBody(userName) == ObjectBody(UserBody(userName, NoRoles, Undefined, Undefined))

ScimRequests ==
  {Request(m, a, NoQuery, NoBody, "none") :
     m \in {"DELETE", "PUT"}, a \in Auths}
  \cup {Request(m, a, NoQuery, NewUserBody(C_x), "none") :
          m \in {"GET", "POST"}, a \in Auths}
  \cup {Request("GET", OrgKey("org-a"), [filter |-> f, startIndex |-> st, count |-> c],
                NoBody, "none") :
          f \in Filters, st \in StartIndexes, c \in Counts}
  \cup {Request("POST", OrgKey("org-a"), NoQuery, b, "none") : b \in Bodies}
  \cup {Request(m, OrgKey("org-a"), NoQuery, NewUserBody(C_x), f) :
          m \in {"GET", "POST"}, f \in Faults}

ConcurrentRequests ==
  {Request("POST", OrgKey(o), NoQuery, NewUserBody(u), "none") :
     o \in {"org-a", "org-b"}, u \in {A_x, C_x, UpperC_x}}
  \cup {Request("GET", OrgKey("org-a"), NoQuery, NoBody, "none")}

\* the users and memberships the handler finds: a@x in org-a, b@x in org-b
ScimDb ==
  [EmptyDb EXCEPT
     !["user"] = << [id |-> <<"user", "seeded", 1>>, email |-> A_x, name |-> Some("Ann")],
                    [id |-> <<"user", "seeded", 2>>, email |-> B_x, name |-> Undefined] >>,
     !["organizationMembership"] =
        << [id |-> <<"membership", "seeded", 1>>, userId |-> <<"user", "seeded", 1>>,
            orgId |-> "org-a", role |-> "OWNER"],
           [id |-> <<"membership", "seeded", 2>>, userId |-> <<"user", "seeded", 2>>,
            orgId |-> "org-b", role |-> "MEMBER"] >>]

InitScim ==
  /\ ObjectsIdle
  /\ UploadIdle
  /\ SeedIdle
  /\ tracked = {}
  /\ run = 1
  /\ db = ScimDb
  /\ requests \in {<<first>> \o beside :
                     first \in ScimRequests,
                     beside \in [1 .. MaxRequests - 1 -> ConcurrentRequests]}
  /\ hpc = [r \in 1 .. MaxRequests |-> "start"]
  /\ hlocal = [r \in 1 .. MaxRequests |-> NoLocals]
  /\ responses = [r \in 1 .. MaxRequests |-> <<>>]

\* concurrent requests to the SCIM Users handler
SpecScim == InitScim /\ [][NextScim]_vars

\* a database that holds a project llm-app of the seed org already, with a
\* "Default" annotation queue
PriorDb ==
  [EmptyDb EXCEPT
     !["organization"] = << [id |-> seedOrgId, name |-> "Seed Org"] >>,
     !["project"] = << [id |-> seedProjectId, name |-> "llm-app", orgId |-> seedOrgId] >>,
     !["annotationQueue"] =
        << [id |-> <<"queue", <<0, <<seedProjectId>>>>>>, name |-> "Default",
            description |-> "Default queue", scoreConfigIds |-> <<>>,
            projectId |-> seedProjectId] >>]

\* a database where somebody has already created version 1 of a prompt named
\* "Prompt 1" in project llm-app (through the application, hence a cuid)
PromptedDb ==
  [PriorDb EXCEPT
     !["prompt"] = << [id |-> <<"cuid", <<0, "prompt", 1>>>>,
                       projectId |-> seedProjectId,
                       name |-> SEED_PROMPTS[1].name,
                       version |-> SEED_PROMPTS[1].version] >>]

\* a database that was seeded before and where the roles of the two users
\* were changed afterwards
RolesChangedDb ==
  [PriorDb EXCEPT
     !["user"] = << [id |-> seedUserId1, name |-> "Demo User",
                     email |-> "demo@langfuse.com"],
                    [id |-> seedUserId2, name |-> "Demo User 2",
                     email |-> "member@langfuse.com"] >>,
     !["organizationMembership"] =
        << [id |-> <<"cuid", <<0, "organizationMembership", 1>>>>,
            userId |-> seedUserId1, orgId |-> seedOrgId, role |-> "MEMBER"],
           [id |-> <<"cuid", <<0, "organizationMembership", 2>>>>,
            userId |-> seedUserId2, orgId |-> seedOrgId, role |-> "VIEWER"] >>,
     !["projectMembership"] =
        << [userId |-> seedUserId2, projectId |-> seedProjectId, role |-> "VIEWER",
            orgMembershipId |-> <<"cuid", <<0, "organizationMembership", 0>>>>] >>]

\* the dataset row and the run rows of an iteration of createDatasets in
\* which every draw of a source observation failed
SkippedDataset(datasetNumber, projectId) ==
  [id |-> <<"cuid", <<1, "dataset", <<datasetNumber, projectId>>>>>>,
   name |-> DatasetName(datasetNumber), projectId |-> projectId]
SkippedRuns(datasetNumber, projectId) ==
  [r \in 1 .. DatasetRunCount |->
     [id |-> <<"cuid", <<1, "datasetRuns", <<datasetNumber, projectId, r - 1>>>>>>,
      projectId |-> projectId, name |-> DatasetRunName(r - 1),
      datasetId |-> SkippedDataset(datasetNumber, projectId).id]]

\* the database when the last pass of createDatasets begins (the second
\* dataset of the second project), after three passes without an item
SkippedDatasetsDb ==
  [EmptyDb EXCEPT
     !["dataset"] = << SkippedDataset(0, seedProjectId), SkippedDataset(0, project2Id),
                       SkippedDataset(1, seedProjectId) >>,
     !["datasetRuns"] = SkippedRuns(0, seedProjectId) \o SkippedRuns(0, project2Id)
                        \o SkippedRuns(1, seedProjectId)]

\* the same pass of a later call: the dataset and its runs exist as well
SeededDatasetsDb ==
  [SkippedDatasetsDb EXCEPT
     !["dataset"] = Append(@, SkippedDataset(1, project2Id)),
     !["datasetRuns"] = @ \o SkippedRuns(1, project2Id)]

\* a span of the n-th trace, as createObjects returns it
ObservationOfTrace(n) ==
  [type |-> "SPAN", id |-> <<"span", <<1, <<n, 0>>>>>>,
   projectId |-> ProjectOf(n), traceId |-> <<"trace", <<1, <<n>>>>>>]

InitDatasets ==
  /\ ObjectsIdle
  /\ UploadIdle
  /\ ScimIdle
  /\ tracked = {}
  /\ run = 1
  /\ environment = Undefined /\ openaiKey = FALSE /\ mpc = "idle"
  /\ mlocal = <<>> /\ tasks = <<>> /\ maps = <<>> /\ exit = <<>>
  /\ finished = <<>> /\ db0 = <<>>
  /\ \E traceCount \in 1 .. 2 :
       ds = [NoDatasets EXCEPT
               !.pc = "dataset", !.datasetNumber = DatasetCount - 1,
               !.project = Len(Projects),
               !.observations = [n \in 1 .. traceCount |-> ObservationOfTrace(n - 1)]]
  /\ db \in {SkippedDatasetsDb, SeededDatasetsDb}

NextDatasets ==
  \/ DatasetFindOrCreate
  \/ DatasetItem
  \/ DatasetItemsDone
  \/ DatasetRun
  \/ DatasetNext

\* the last pass of createDatasets alone, with the observations of one or
\* of both projects
SpecDatasets == InitDatasets /\ [][NextDatasets]_vars

InitSeed ==
  /\ ObjectsIdle
  /\ UploadIdle
  /\ ScimIdle
  /\ tracked = SeedView
  /\ run = 1
  /\ environment \in Environments
  /\ openaiKey \in BOOLEAN
  /\ mpc = "user1"
  /\ mlocal = NoMainLocals /\ tasks = NoTasks /\ maps = NoMaps
  /\ ds = NoDatasets /\ exit = NoExit
  /\ finished = <<>>
  /\ db \in {EmptyDb, PriorDb, PromptedDb, RolesChangedDb}
  /\ db0 = db

\* the seed script, run up to MaxRuns times
SpecSeed == InitSeed /\ [][NextSeed]_vars

\* ------------------------------------------------- properties: createObjects

TracesWithId(id) == {n \in DOMAIN traces : traces[n].id = id}

\* C1: every span and every generation pushed to `observations` carries the
\* id of exactly one trace of `traces` as its traceId, and that trace's
\* projectId as its projectId.
C1_ObservationBelongsToOneTrace ==
  \A n \in DOMAIN observations :
    /\ Cardinality(TracesWithId(observations[n].traceId)) = 1
    /\ \A m \in TracesWithId(observations[n].traceId) :
         traces[m].projectId = observations[n].projectId

\* createObjects has returned spans and generations of both projects
C1_Witness ==
  /\ co = "returned"
  /\ \E n, m \in DOMAIN returned.observations :
       /\ returned.observations[n].type = "SPAN"
       /\ returned.observations[n].projectId = seedProjectId
       /\ returned.observations[m].type = "GENERATION"
       /\ returned.observations[m].projectId = project2Id

ConfigsOfScore(s) ==
  {c \in Range(GetOrEmpty(configParams, s.projectId)) : c.id = s.configId}

LabelMatchesCategory(s) ==
  \E c \in ConfigsOfScore(s) :
    \E cat \in Range(c.categories) :
      Some(cat.label) = s.stringValue /\ Some(cat.value) = s.value

\* C2 as stated: a NUMERIC score has `value` and no `stringValue`; a
\* CATEGORICAL or BOOLEAN score has `stringValue`, which is the label of the
\* config category whose value matches the score.
C2_AsStated ==
  \A n \in DOMAIN scores :
    LET s == scores[n]
    IN /\ s.dataType = Some(NUMERIC) =>
            s.value # Undefined /\ s.stringValue = Undefined
       /\ s.dataType \in {Some(CATEGORICAL), Some(BOOLEAN_T)} =>
            s.stringValue # Undefined /\ LabelMatchesCategory(s)

\* C2 (amended): a NUMERIC score has `value` and no `stringValue`; a
\* CATEGORICAL or BOOLEAN score has `stringValue`; and when such a score
\* carries a configId (the annotation score), its stringValue is the label of
\* the category of that config whose value equals the score's value.
C2_DataTypeDeterminesField ==
  \A n \in DOMAIN scores :
    LET s == scores[n]
    IN /\ s.dataType = Some(NUMERIC) =>
            s.value # Undefined /\ s.stringValue = Undefined
       /\ s.dataType \in {Some(CATEGORICAL), Some(BOOLEAN_T)} =>
            /\ s.stringValue # Undefined
            /\ s.configId # Undefined => LabelMatchesCategory(s)

\* createObjects has returned a categorical and a boolean annotation score
C2_Witness ==
  /\ co = "returned"
  /\ \A t \in {CATEGORICAL, BOOLEAN_T} :
       \E n \in DOMAIN returned.scores :
         /\ returned.scores[n].dataType = Some(t)
         /\ returned.scores[n].configId # Undefined
         /\ returned.scores[n].stringValue # Undefined

\* -------------------------------------------------- properties: uploadObjects

InFlight == {n \in DOMAIN promises : promises[n].state = "running"}

Started(phase) ==
  up = phase /\ \E n \in DOMAIN promises : promises[n].state # "deferred"

\* every session of the input is a row of traceSession
SessionsStored ==
  \A n \in DOMAIN upSessions :
    \E m \in DOMAIN db["traceSession"] : db["traceSession"][m] = upSessions[n]

\* C7: at most one database write is in flight; a chunk is sent only after
\* every earlier chunk of its collection has completed; every session is
\* written before the first comment batch is sent, and every comment before
\* the first queue item batch is sent.
C7_SequentialChunks ==
  /\ Cardinality(InFlight) <= 1
  /\ \A n \in DOMAIN promises :
       promises[n].state # "deferred" =>
         \A m \in 1 .. n - 1 : promises[m].state = "settled"
  /\ Started("comments") => SessionsStored
  /\ Started("queueItems") => SessionsStored /\ db["comment"] = upComments

\* the second comment batch is in flight after two sessions were upserted
C7_Witness ==
  /\ up = "comments"
  /\ Len(upSessions) = 2
  /\ Len(promises) = 2
  /\ promises[2].state = "running"

\* -------------------------------------------- properties: SCIM Users handler

\* C9: every response with a status other than 200 or 201 is one of 405,
\* 401, 403, 400, 409, 500 and has a body whose schemas is exactly the SCIM
\* error schema, whose status equals the HTTP status sent and which has a
\* detail; no request is answered twice and a finished request is answered.
C9_ErrorResponsesFollowScimSchema ==
  \A r \in DOMAIN requests :
    /\ Len(responses[r]) <= 1
    /\ hpc[r] = "done" <=> Len(responses[r]) = 1
    /\ \A n \in DOMAIN responses[r] :
         LET response == responses[r][n]
         IN response.http \notin {200, 201} =>
              /\ response.http \in {405, 401, 403, 400, 409, 500}
              /\ response.body.schemas = <<ErrorSchema>>
              /\ response.body.status = response.http
              /\ "detail" \in DOMAIN response.body

\* one request was answered 409 beside one answered 400, 401, 403, 405 or 500
C9_Witness ==
  /\ \A r \in DOMAIN requests : hpc[r] = "done"
  /\ \E r \in DOMAIN requests : responses[r][1].http = 409
  /\ \E r \in DOMAIN requests : responses[r][1].http \in {400, 401, 403, 405, 500}

\* The handler run alone on database d: the response it sends and the
\* database it leaves.
HandleAlone(d, r, req) ==
  LET orgId == req.auth.scope.orgId
      value == req.body.value
      where == WhereClause(req.query.filter)
      start == ParsedStartIndex(req.query)
      members == MembersWhere(d, orgId, where)
      page == Page(members, start - 1, ParsedCount(req.query))
      known == {n \in DOMAIN d["user"] : d["user"][n].email = toLowerCase(value.userName)}
      user == IF known = {} THEN NewUser(r, value)
              ELSE d["user"][CHOOSE n \in known : TRUE]
      withUser == IF known = {} THEN CreateMany(d, "user", <<user>>) ELSE d
  IN IF req.method \notin {"GET", "POST"} THEN [response |-> MethodNotAllowed, db |-> d]
     ELSE IF ~req.auth.validKey
     THEN [response |-> Unauthorized(req.auth.error), db |-> d]
     ELSE IF req.auth.scope.accessLevel # "organization" \/ orgId = NoOrgId
     THEN [response |-> Forbidden, db |-> d]
     ELSE IF req.method = "GET"
     THEN IF req.fault \in {"count", "findMany"} \/ start - 1 < 0
          THEN [response |-> InternalServerError, db |-> d]
          ELSE [response |-> ListResponse(Len(members), start,
                               [n \in DOMAIN page |-> ScimUser(UserOf(d, page[n]))]),
                db |-> d]
     ELSE IF PostValidated(req.body).rejected
     THEN [response |-> PostValidated(req.body).response, db |-> d]
     ELSE IF req.fault = "findExisting" THEN [response |-> InternalServerError, db |-> d]
     ELSE IF MembersWhere(d, orgId, [any |-> FALSE, email |-> value.userName]) # <<>>
     THEN [response |-> UserExists, db |-> d]
     ELSE IF req.fault = "upsert" THEN [response |-> InternalServerError, db |-> d]
     ELSE IF req.fault = "create" \/ MembershipExists(withUser, orgId, user.id)
     THEN [response |-> InternalServerError, db |-> withUser]
     ELSE [response |-> UserCreated(user),
           db |-> CreateMany(withUser, "organizationMembership",
                    <<NewMembership(r, user, orgId, RoleOf(req.body))>>)]

\* the responses and the final tables of the requests run one after another
\* in the given order
RECURSIVE Serial(_, _, _)
Serial(d, order, answered) ==
  IF order = <<>> THEN [db |-> d, responses |-> answered]
  ELSE LET first == HandleAlone(d, order[1], requests[order[1]])
       IN Serial(first.db, Tail(order),
                 [answered EXCEPT ![order[1]] = <<first.response>>])

Orders ==
  {order \in [DOMAIN requests -> DOMAIN requests] :
     \A r \in DOMAIN requests : \E n \in DOMAIN order : order[n] = r}

\* C10, as stated: once the concurrent requests have been answered, their
\* responses and the users and memberships are those of the requests run
\* one after another in some order; two POSTs of one new userName in one
\* organization are answered 201 and 409 and leave one membership.
C10_AsStated ==
  (\A r \in DOMAIN requests : hpc[r] = "done") =>
    \E order \in Orders :
      LET serial == Serial(ScimDb, order, [r \in DOMAIN requests |-> <<>>])
      IN /\ responses = serial.responses
         /\ Range(db["user"]) = Range(serial.db["user"])
         /\ Range(db["organizationMembership"]) =
              Range(serial.db["organizationMembership"])
         /\ \A r1, r2 \in DOMAIN requests :
              LET orgId == OrgOf(r1)
                  email == toLowerCase(requests[r1].body.value.userName)
                  member == [any |-> FALSE, email |-> email]
              IN /\ r1 # r2
                 /\ requests[r1] = requests[r2]
                 /\ requests[r1].method = "POST"
                 /\ requests[r1].fault = "none"
                 /\ requests[r1].auth = OrgKey(orgId)
                 /\ requests[r1].body.kind = "object"
                 /\ ~PostValidated(requests[r1].body).rejected
                 /\ requests[r1].body.value.userName = email
                 /\ MembersWhere(ScimDb, orgId, member) = <<>>
                 => /\ {responses[r1][1].http, responses[r2][1].http} = {201, 409}
                    /\ Len(MembersWhere(db, orgId, member)) = 1

\* ------------------------------------------------- properties: seed script

PromptKey(row) == <<row.projectId, row.name, row.version>>

\* C3, as stated: the prompt table holds at most one prompt per (projectId,
\* name, version); every upsert of generatePrompts looks the prompt up by
\* the projectId, name and version of the row it creates, so that no
\* execution of generatePrompts throws.
C3_AsStated ==
  /\ \A n, m \in DOMAIN db["prompt"] :
       PromptKey(db["prompt"][n]) = PromptKey(db["prompt"][m]) => n = m
  /\ \A p \in DOMAIN tasks :
       tasks[p].kind = "prompts" =>
         /\ tasks[p].pc # "threw"
         /\ \A n \in 1 .. tasks[p].n :
              LET write == PromptWrites(p)[n]
              IN /\ write.where.projectId = Text(write.create.projectId)
                 /\ write.where.name = write.create.name
                 /\ write.where.version = write.create.version

\* C4: every queue item handed to uploadObjects carries the id of a queue
\* that the database holds for the item's projectId, and the id of a trace
\* of createObjects with the same projectId.
C4_QueueItemsReferenceQueueAndTrace ==
  up # "idle" =>
    \A n \in DOMAIN upQueueItems :
      /\ \E q \in DOMAIN db["annotationQueue"] :
           /\ db["annotationQueue"][q].id = upQueueItems[n].queueId
           /\ db["annotationQueue"][q].projectId = upQueueItems[n].projectId
      /\ \E t \in DOMAIN traces :
           /\ traces[t].id = upQueueItems[n].objectId
           /\ traces[t].projectId = upQueueItems[n].projectId

\* queue items of both projects have been uploaded, on a database that held
\* a "Default" queue of project llm-app before the run
C4_Witness ==
  /\ up = "returned"
  /\ db0 = PriorDb
  /\ {upQueueItems[n].projectId : n \in DOMAIN upQueueItems} = Range(Projects)
  /\ db["annotationQueueItem"] = upQueueItems

KeyedTables ==
  {"prompt", "scoreConfig", "annotationQueue", "llmSchema", "llmApiKeys", "dashboard"}

\* C5, as stated: a run with environment "examples" or "load" that follows
\* a successful run with the same environment does not reject, and adds no
\* row to the table of a keyed entity.
C5_AsStated ==
  (/\ run >= 2
   /\ environment \in {Some("examples"), Some("load")}
   /\ finished[run - 1] = [environment |-> environment, code |-> 0])
  => /\ mpc \notin {"rejected", "disconnected", "exited"}
     /\ \A t \in KeyedTables : Len(db[t]) = Len(db0[t])

BaselineTables ==
  {"user", "organization", "project", "organizationMembership",
   "projectMembership", "prompt", "apiKey"}

\* a row of the baseline
BaselineRow(t, row) ==
  CASE t = "user" -> row.id \in {seedUserId1, seedUserId2}
    [] t = "organization" -> row.id = seedOrgId
    [] t = "project" -> row.id = seedProjectId
    [] t = "organizationMembership" -> row.orgId = seedOrgId
    [] t = "projectMembership" -> row.projectId = seedProjectId
    [] t = "prompt" -> row.name = "summary-prompt" /\ row.projectId = seedProjectId
    [] t = "apiKey" -> row.id = "seed-api-key"
    [] OTHER -> FALSE

Holds(t, Row(_)) == \E n \in DOMAIN db[t] : Row(db[t][n])

BaselineProvisioned ==
  /\ Holds("user", LAMBDA r : r.id = seedUserId1)
  /\ Holds("user", LAMBDA r : r.id = seedUserId2)
  /\ Holds("organization", LAMBDA r : r.id = seedOrgId)
  /\ Holds("project", LAMBDA r : r.id = seedProjectId /\ r.name = "llm-app")
  /\ Holds("organizationMembership",
           LAMBDA r : r.userId = seedUserId1 /\ r.orgId = seedOrgId)
  /\ Holds("organizationMembership",
           LAMBDA r : r.userId = seedUserId2 /\ r.orgId = seedOrgId)
  /\ Holds("projectMembership",
           LAMBDA r : r.userId = seedUserId2 /\ r.projectId = seedProjectId)
  /\ Holds("prompt", LAMBDA r : BaselineRow("prompt", r))
  /\ Holds("apiKey", LAMBDA r : r.id = "seed-api-key")

FurtherWrites ==
  /\ Holds("organization", LAMBDA r : r.id = seedOrgIdOrg2)
  /\ Holds("project", LAMBDA r : r.id = project2Id)
  /\ Holds("organizationMembership",
           LAMBDA r : r.userId = seedUserId1 /\ r.orgId = seedOrgIdOrg2)
  /\ Holds("apiKey", LAMBDA r : r.id = "seed-api-key-2")
  /\ \A p \in Range(Projects) :
       /\ \A n \in 1 .. 3 : Holds("scoreConfig", LAMBDA r : r.id = ConfigId(p, n))
       /\ Holds("annotationQueue", LAMBDA r : r.id = QueueId(p))
       /\ Holds("prompt", LAMBDA r : r.projectId = p /\ r.name = "Prompt 1")
       /\ Holds("dataset", LAMBDA r : r.projectId = p)
  /\ Range(upSessions) \subseteq Range(db["traceSession"])
  /\ Range(upComments) \subseteq Range(db["comment"])
  /\ Range(upQueueItems) \subseteq Range(db["annotationQueueItem"])
  /\ Holds("evalTemplate", LAMBDA r : r.name = "toxicity-template")
  /\ Holds("jobConfiguration", LAMBDA r : r.id = "toxicity-job")
  /\ Holds("dashboard", LAMBDA r : r.id = "seed-dashboard")
  /\ Holds("llmSchema", LAMBDA r : r.name = "get_weather")

\* C6: a run whose environment is neither "examples" nor "load" leaves
\* every table outside the baseline as it found it and writes baseline rows
\* only; a run that resolves has provisioned the baseline; a run with
\* "examples" or "load" that resolves has made the further writes.
C6_ExamplesAreConditional ==
  /\ (mpc # "idle" /\ environment \notin {Some("examples"), Some("load")}) =>
       /\ \A t \in Tables \ BaselineTables : db[t] = db0[t]
       /\ \A t \in BaselineTables :
            \A row \in Range(db[t]) \ Range(db0[t]) : BaselineRow(t, row)
  /\ mpc \in {"resolved", "ended"} => BaselineProvisioned
  /\ (mpc \in {"resolved", "ended"} /\ environment \in {Some("examples"), Some("load")})
       => FurtherWrites

\* a run with "load" has ended, and after it a run with another environment
C6_Witness ==
  /\ run = 2
  /\ finished = << [environment |-> Some("load"), code |-> 0],
                   [environment |-> Some("production"), code |-> 0] >>
  /\ mpc = "ended"
  /\ db["traceSession"] # <<>>

IdsOf(t, project) ==
  {db[t][n].id : n \in {m \in DOMAIN db[t] : db[t][m].projectId = project}}

\* C8, as stated: queue generation starts after every project's configs
\* are in the map; when the three generators have returned, each map has
\* one entry per project, which holds ids of rows of that project only
\* (three configs, numeric, categorical and boolean; one queue; the
\* project's prompts).
C8_AsStated ==
  /\ (\E p \in DOMAIN tasks : tasks[p].kind = "queues") =>
       DOMAIN mlocal.configIdsAndNames = Range(Projects)
  /\ mpc = "createObjects" =>
       /\ DOMAIN mlocal.configIdsAndNames = Range(Projects)
       /\ DOMAIN mlocal.queueIds = Range(Projects)
       /\ DOMAIN mlocal.promptIds = Range(Projects)
       /\ \A p \in Range(Projects) :
            /\ [n \in DOMAIN mlocal.configIdsAndNames[p] |->
                  mlocal.configIdsAndNames[p][n].dataType]
                 = <<NUMERIC, CATEGORICAL, BOOLEAN_T>>
            /\ \A n \in DOMAIN mlocal.configIdsAndNames[p] :
                 mlocal.configIdsAndNames[p][n].id \in IdsOf("scoreConfig", p)
            /\ Len(mlocal.queueIds[p]) = 1
            /\ mlocal.queueIds[p][1] \in IdsOf("annotationQueue", p)
            /\ \A n \in DOMAIN mlocal.promptIds[p] :
                 mlocal.promptIds[p][n] \in IdsOf("prompt", p)

\* ------------------------------------------- properties: the SCIM handler

\* the ids of the users that have a membership in organization orgId
MemberIds(d, orgId) ==
  {d["organizationMembership"][n].userId :
     n \in {m \in DOMAIN d["organizationMembership"] :
              d["organizationMembership"][m].orgId = orgId}}

\* the key of the request is a valid key of an organization
OrganizationKey(req) ==
  /\ req.auth.validKey
  /\ req.auth.scope.accessLevel = "organization"
  /\ req.auth.scope.orgId # NoOrgId

\* the rows of table t that request r wrote
WrittenBy(t, r) ==
  {n \in DOMAIN db[t] : db[t][n].id \in {<<"user", "scim", r>>, <<"membership", "scim", r>>}}

\* C11: a GET lists and counts only users with a membership in the
\* organization of the key; the membership a POST creates has the orgId of
\* the key; a request whose key is valid but not a key of an organization
\* is answered 403, issues no query and writes no row.
C11_ConfinedToOrganizationOfKey ==
  \A r \in DOMAIN requests :
    LET req == requests[r]
        orgId == req.auth.scope.orgId
    IN /\ (hpc[r] = "done" /\ responses[r][1].http = 200) =>
            /\ \A n \in DOMAIN responses[r][1].body.Resources :
                 responses[r][1].body.Resources[n].id \in MemberIds(db, orgId)
            /\ responses[r][1].body.totalResults <= Cardinality(MemberIds(db, orgId))
       /\ \A n \in WrittenBy("organizationMembership", r) :
            db["organizationMembership"][n].orgId = orgId
       /\ (hpc[r] = "done" /\ responses[r][1].http = 201) =>
            WrittenBy("organizationMembership", r) # {}
       /\ (req.auth.validKey /\ ~OrganizationKey(req)) =>
            /\ hpc[r] \in {"start", "auth", "done"}
            /\ hlocal[r] = NoLocals
            /\ WrittenBy("user", r) = {} /\ WrittenBy("organizationMembership", r) = {}
            /\ (hpc[r] = "done" /\ req.method \in {"GET", "POST"}) =>
                 responses[r][1] = Forbidden

\* a GET of org-a has listed its member while a POST with a key of org-b
\* has created a user and a membership
C11_Witness ==
  /\ \E r \in DOMAIN requests :
       /\ requests[r].method = "GET" /\ requests[r].auth.scope.orgId = "org-a"
       /\ hpc[r] = "done" /\ responses[r][1].http = 200
       /\ responses[r][1].body.Resources # <<>>
  /\ \E r \in DOMAIN requests :
       /\ requests[r].method = "POST" /\ requests[r].auth.scope.orgId = "org-b"
       /\ hpc[r] = "done" /\ responses[r][1].http = 201

\* ------------------------------------- properties: parents of observations

\* the spans pushed before position n
SpansBefore(n) == {m \in 1 .. n - 1 : observations[m].type = "SPAN"}

\* the span under which the observation at position n was generated
SpanAbove(n) == CHOOSE m \in SpansBefore(n) : \A o \in SpansBefore(n) : o <= m

\* C12: the first span of a trace has no parentObservationId; the
\* parentObservationId of a span, when present, is the id of a span pushed
\* earlier for the same trace; the parentObservationId of a generation and
\* of an event is the id of the span of the same trace it was generated
\* under.
C12_ParentsFormForestInTrace ==
  /\ \A n \in DOMAIN observations :
       LET o == observations[n]
       IN IF o.type = "SPAN"
          THEN /\ (\A m \in SpansBefore(n) : observations[m].traceId # o.traceId)
                    => o.parentObservationId = Undefined
               /\ o.parentObservationId # Undefined =>
                    \E m \in SpansBefore(n) :
                      /\ observations[m].id = o.parentObservationId
                      /\ observations[m].traceId = o.traceId
          ELSE /\ SpansBefore(n) # {}
               /\ observations[SpanAbove(n)].id = o.parentObservationId
               /\ observations[SpanAbove(n)].traceId = o.traceId
  /\ \A n \in DOMAIN events :
       LET e == events[n]
           call == e.id[2][2]
       IN /\ e.parentObservationId = <<"span", v4(<<call[1], call[2]>>)>>
          /\ \E m \in DOMAIN observations :
               /\ observations[m].type = "SPAN"
               /\ observations[m].id = e.parentObservationId
               /\ observations[m].traceId = e.traceId

\* createObjects has returned a span with a parent and an event, and every
\* trace has a generation
C12_Witness ==
  /\ co = "returned"
  /\ Len(returned.traces) = MaxTraceVolume
  /\ \E n \in DOMAIN returned.observations :
       /\ returned.observations[n].type = "SPAN"
       /\ returned.observations[n].parentObservationId # Undefined
  /\ \E n \in DOMAIN returned.observations :
       returned.observations[n].type = "GENERATION"
  /\ returned.events # <<>>

\* ------------------------------------------ properties: baseline and exit

\* C13: a run of main without an environment argument never rejects, and
\* when it follows a successful run without an environment argument it
\* leaves the user, organization, project, membership, prompt and api key
\* tables as it found them.
C13_BaselineIsIdempotent ==
  /\ environment = Undefined => mpc \notin {"rejected", "disconnected", "exited"}
  /\ (/\ run >= 2
      /\ environment = Undefined
      /\ finished[run - 1] = [environment |-> Undefined, code |-> 0])
     => \A t \in BaselineTables : db[t] = db0[t]

\* two runs without an environment argument have ended, on a database that
\* was empty before the first
C13_Witness ==
  /\ run = 2
  /\ finished = << [environment |-> Undefined, code |-> 0],
                   [environment |-> Undefined, code |-> 0] >>
  /\ mpc = "ended"
  /\ Len(db["organization"]) = 1
  /\ Len(db["user"]) = 2 /\ Len(db["apiKey"]) = 1 /\ Len(db["prompt"]) = 1
  /\ Len(db["organizationMembership"]) = 2 /\ Len(db["projectMembership"]) = 1

\* ---------------------------------- properties: the checks of the handler

\* the emails of the members of organization orgId in database d
MemberEmails(d, orgId) ==
  {d["user"][n].email : n \in {m \in DOMAIN d["user"] : d["user"][m].id \in MemberIds(d, orgId)}}

NoFailure == [http |-> 0]

\* the answer of the first check that fails, in the order of the claim
FirstFailure(req) ==
  LET value == req.body.value
  IN IF req.method \notin {"GET", "POST"} THEN MethodNotAllowed
     ELSE IF ~req.auth.validKey THEN Unauthorized(req.auth.error)
     ELSE IF ~OrganizationKey(req) THEN Forbidden
     ELSE IF req.method = "GET" THEN NoFailure
     ELSE IF req.body.kind = "text" THEN InvalidJsonBody
     ELSE IF value.userName = <<>> THEN UserNameRequired
     ELSE IF /\ value.roles.kind = "array"
             /\ \E n \in DOMAIN value.roles.items : value.roles.items[n] \notin RoleNames
          THEN InvalidRoles(value.roles)
     ELSE IF value.userName \in MemberEmails(ScimDb, req.auth.scope.orgId)
          THEN UserExists
     ELSE NoFailure

ValidPost(req) ==
  /\ req.method = "POST"
  /\ OrganizationKey(req)
  /\ req.fault = "none"
  /\ req.body.kind \in {"object", "json"}
  /\ req.body.value.userName # <<>>
  /\ req.body.value.roles.kind = "array" =>
       \A n \in DOMAIN req.body.value.roles.items :
         req.body.value.roles.items[n] \in RoleNames

\* C15: a POST whose userName is the email of a member of the key's
\* organization is answered 409 "User with this userName already exists",
\* writes no user and no membership, and leaves both tables as they were
\* when no other POST runs beside it.
C15_ExistingMemberIsConflict ==
  \A r \in DOMAIN requests :
    (/\ ValidPost(requests[r])
     /\ requests[r].body.value.userName
          \in MemberEmails(ScimDb, requests[r].auth.scope.orgId))
    => /\ hpc[r] = "done" =>
            /\ responses[r][1].http = 409
            /\ responses[r][1].body.detail = "User with this userName already exists"
       /\ hpc[r] \notin {"upsert", "create"}
       /\ WrittenBy("user", r) = {} /\ WrittenBy("organizationMembership", r) = {}
       /\ (\A other \in DOMAIN requests \ {r} : requests[other].method # "POST")
            => /\ db["user"] = ScimDb["user"]
               /\ db["organizationMembership"] = ScimDb["organizationMembership"]

\* the POST for a@x with a key of org-a has been answered, beside a GET
C15_Witness ==
  \E r \in DOMAIN requests :
    /\ requests[r].method = "POST"
    /\ requests[r].body.value.userName = A_x
    /\ requests[r].auth.scope.orgId = "org-a"
    /\ hpc[r] = "done"
    /\ responses[r][1] = UserExists
    /\ \A other \in DOMAIN requests \ {r} :
         requests[other].method = "GET" /\ hpc[other] = "done"

\* the role the claim prescribes for a body
PrescribedRole(roles) ==
  IF roles.kind = "array" /\ roles.items # <<>> THEN roles.items[1] ELSE "NONE"

\* the users of the database whose email is `email`
UsersWithEmail(email) == {n \in DOMAIN db["user"] : db["user"][n].email = email}

\* another request that creates the same member
SameMemberRequested(r) ==
  \E other \in DOMAIN requests \ {r} :
    /\ requests[other].method = "POST"
    /\ requests[other].auth.scope.orgId = requests[r].auth.scope.orgId
    /\ toLowerCase(requests[other].body.value.userName)
         = toLowerCase(requests[r].body.value.userName)

\* C16: a POST that passes validation for a userName whose lower-cased
\* form is no member's email is answered 201 and adds one membership, of
\* the one user with that email, with the orgId of the key and the role
\* prescribed: the first of a non-empty `roles` array, else "NONE"; a roles
\* array with a value that is no role name is answered 400 and nothing is
\* written.  (No second request creates the same member meanwhile.)
C16_PostCreatesOneMembership ==
  \A r \in DOMAIN requests :
    LET req == requests[r]
        value == req.body.value
        orgId == req.auth.scope.orgId
        email == toLowerCase(value.userName)
    IN /\ (/\ ValidPost(req)
           /\ email \notin MemberEmails(ScimDb, orgId)
           /\ ~SameMemberRequested(r)
           /\ hpc[r] = "done")
          => /\ responses[r][1].http = 201
             /\ responses[r][1].body.userName = email
             /\ Cardinality(UsersWithEmail(email)) = 1
             /\ \A u \in UsersWithEmail(email) :
                  /\ responses[r][1].body.id = db["user"][u].id
                  /\ {db["organizationMembership"][n] :
                        n \in WrittenBy("organizationMembership", r)}
                       = {[id |-> <<"membership", "scim", r>>,
                           userId |-> db["user"][u].id, orgId |-> orgId,
                           role |-> PrescribedRole(value.roles)]}
                  /\ Cardinality({n \in DOMAIN db["organizationMembership"] :
                        /\ db["organizationMembership"][n].userId = db["user"][u].id
                        /\ db["organizationMembership"][n].orgId = orgId}) = 1
       /\ (/\ req.method = "POST" /\ OrganizationKey(req) /\ req.fault = "none"
           /\ req.body.kind \in {"object", "json"}
           /\ value.userName # <<>>
           /\ value.roles.kind = "array"
           /\ \E n \in DOMAIN value.roles.items : value.roles.items[n] \notin RoleNames)
          => /\ hpc[r] = "done" => responses[r][1].http = 400
             /\ WrittenBy("user", r) = {}
             /\ WrittenBy("organizationMembership", r) = {}

\* c@x has been made ADMIN of org-a and the other POST, for C@x in org-b,
\* has been answered 201 too
C16_Witness ==
  /\ \E r \in DOMAIN requests :
       /\ requests[r].method = "POST"
       /\ requests[r].body.value.userName = C_x
       /\ requests[r].body.value.roles = RolesArray(<<"ADMIN">>)
       /\ hpc[r] = "done" /\ responses[r][1].http = 201
  /\ \E r \in DOMAIN requests :
       /\ requests[r].method = "POST"
       /\ requests[r].body.value.userName = UpperC_x
       /\ requests[r].auth.scope.orgId = "org-b"
       /\ hpc[r] = "done" /\ responses[r][1].http = 201

\* ------------------------------------------------ properties: GET of users

\* a GET with a valid organization key and no failing query, answered while
\* the users and memberships are the ones the handler found at its start
AnsweredGet(r) ==
  /\ requests[r].method = "GET"
  /\ OrganizationKey(requests[r])
  /\ requests[r].fault = "none"
  /\ hpc[r] = "done"
  /\ db = ScimDb

\* the members of the organization that a `where` on the user's email selects
Matching(orgId, where) ==
  LET Selected(m) ==
        /\ m.orgId = orgId
        /\ where.any \/ \E n \in DOMAIN ScimDb["user"] :
                          /\ ScimDb["user"][n].id = m.userId
                          /\ ScimDb["user"][n].email = where.email
  IN SelectSeq(ScimDb["organizationMembership"], Selected)

\* C17, as stated: every GET is answered 200; startIndex is the parsed
\* startIndex; Resources are the members at the 1-based positions
\* startIndex .. startIndex + count - 1 of the matching memberships;
\* itemsPerPage is their number and at most count; totalResults is the
\* number of all matching memberships.
C17_AsStated ==
  \A r \in DOMAIN requests :
    AnsweredGet(r) =>
      LET body == responses[r][1].body
          startIndex == ParsedStartIndex(requests[r].query)
          count == ParsedCount(requests[r].query)
          matching == Matching(requests[r].auth.scope.orgId, hlocal[r].where)
          last == IF startIndex + count - 1 < Len(matching)
                  THEN startIndex + count - 1 ELSE Len(matching)
      IN /\ responses[r][1].http = 200
         /\ body.startIndex = startIndex
         /\ body.totalResults = Len(matching)
         /\ body.itemsPerPage = Len(body.Resources)
         /\ body.itemsPerPage <= count
         /\ body.Resources =
              [n \in 1 .. (IF last < startIndex THEN 0 ELSE last - startIndex + 1) |->
                 ScimUser(UserOf(ScimDb, matching[startIndex + n - 1]))]

\* the values X for which text contains `userName eq "X"`, the keyword in
\* any letter case and X non-empty
QuotedUserNames(text) ==
  {SubSeq(text, ab[1], ab[2]) :
     ab \in {pq \in (DOMAIN text) \X (DOMAIN text) :
               /\ 3 <= pq[1] /\ pq[1] <= pq[2] /\ pq[2] < Len(text)
               /\ LowerChar(text[pq[1] - 2]) = "username eq "
               /\ text[pq[1] - 1] = Quote /\ text[pq[2] + 1] = Quote
               /\ \A n \in pq[1] .. pq[2] : text[n] # Quote}}

Lowered(str) == [n \in DOMAIN str |-> LowerChar(str[n])]

\* C18: when `filter` is a string that contains `userName eq "X"`, the GET
\* counts and lists the members of the organization whose email is the
\* lower-cased X, and no others; for every other filter it counts all
\* members of the organization and lists them from startIndex on.
C18_FilterRestrictsToUserName ==
  \A r \in DOMAIN requests :
    (AnsweredGet(r) /\ responses[r][1].http = 200) =>
      LET filter == requests[r].query.filter
          orgId == requests[r].auth.scope.orgId
          body == responses[r][1].body
          all == Matching(orgId, [any |-> TRUE, email |-> <<>>])
      IN IF filter.kind = "string" /\ QuotedUserNames(filter.text) # {}
         THEN \E X \in QuotedUserNames(filter.text) :
                /\ body.totalResults
                     = Len(Matching(orgId, [any |-> FALSE, email |-> Lowered(X)]))
                /\ \A n \in DOMAIN body.Resources :
                     body.Resources[n].userName = Lowered(X)
         ELSE /\ body.totalResults = Len(all)
              /\ (body.startIndex = 1 /\ ParsedCount(requests[r].query) >= Len(all))
                   => [n \in DOMAIN body.Resources |-> body.Resources[n].id]
                        = [n \in DOMAIN all |-> all[n].userId]

\* the filter USERNAME EQ "A@x" has found a@x in org-a
C18_Witness ==
  \E r \in DOMAIN requests :
    /\ AnsweredGet(r)
    /\ requests[r].query.filter
         = FilterText(<<UserNameEqUpper, Quote>> \o UpperA_x \o <<Quote>>)
    /\ responses[r][1].http = 200
    /\ responses[r][1].body.totalResults = 1
    /\ Len(responses[r][1].body.Resources) = 1
    /\ responses[r][1].body.Resources[1].userName = A_x

\* ------------------------------------------------ properties: process exit

\* the number of queries the task of project p issues, one after the other
TaskQueries(p) ==
  IF tasks[p].kind = "prompts" THEN Len(PromptWrites(p))
  ELSE IF tasks[p].kind = "configs" THEN Len(ConfigTemplates)
  ELSE IF tasks[p].kind = "queues" THEN 1
  ELSE 0

\* a task is answered and issues its next upsert in this step
IssuesWrite ==
  \E p \in DOMAIN tasks :
    /\ tasks[p].pc = "running" /\ tasks'[p].pc = "running"
    /\ tasks'[p].kind = tasks[p].kind
    /\ tasks'[p].n = tasks[p].n + 1
    /\ tasks'[p].n < TaskQueries(p)

\* each disconnect is invoked at most once, exactly once when the process is
\* over, and never before main has settled
DisconnectsOnce ==
  /\ exit.prisma <= 1 /\ exit.redis <= 1
  /\ mpc \in {"ended", "exited"} => exit.prisma = 1 /\ exit.redis = 1
  /\ exit.prisma = 1 => mpc \in {"disconnected", "ended", "exited"}

\* the exit code is 1 exactly when main rejected
ExitCodeOfRejection ==
  /\ exit.code = Some(1) <=> mpc = "exited"
  /\ mpc \in {"ended", "exited"} =>
       /\ finished # <<>>
       /\ finished[Len(finished)].code = (IF mpc = "exited" THEN 1 ELSE 0)

\* a resolved main ends without an exit code, a rejected main goes through
\* the disconnect to process.exit(1)
ExitStep ==
  /\ mpc = "resolved" => mpc' \in {"resolved", "ended"}
  /\ mpc = "rejected" => mpc' \in {"rejected", "disconnected"}
  /\ mpc = "disconnected" => mpc' \in {"disconnected", "exited"}
  /\ mpc' = "ended" => mpc \in {"resolved", "ended"}
  /\ mpc' = "exited" => mpc \in {"disconnected", "exited"}

\* once prisma.$disconnect() is invoked no write is issued and the database
\* does not change until the next run
NoWriteAfterDisconnect ==
  exit.prisma >= 1 /\ run' = run => ~IssuesWrite /\ db' = db

C19_ExitSequence == []DisconnectsOnce /\ []ExitCodeOfRejection /\ [][ExitStep]_vars

\* C19: in every run of the seed script, whether main resolves or rejects,
\* prisma.$disconnect() and redis.disconnect() are each invoked exactly once,
\* the process exits with code 1 if and only if main rejected, and no
\* database write is issued after the disconnect.
C19_AsStated ==
  /\ []DisconnectsOnce
  /\ []ExitCodeOfRejection
  /\ [][ExitStep]_vars
  /\ [][NoWriteAfterDisconnect]_vars

\* ------------------------------------- properties: the batches of uploadObjects

\* the position of uploadObjects among its three loops
PhaseNo ==
  CASE up = "sessions" -> 1
    [] up = "comments" -> 2
    [] up = "queueItems" -> 3
    [] up = "returned" -> 4
    [] OTHER -> 0

\* the input list of the loop uploadObjects is in
PhaseRows ==
  CASE up = "sessions" -> upSessions
    [] up = "comments" -> upComments
    [] OTHER -> upQueueItems

\* the rows of the batches, one batch after the other
RECURSIVE Flatten(_)
Flatten(batches) ==
  IF batches = <<>> THEN <<>>
  ELSE batches[1] \o Flatten(SubSeq(batches, 2, Len(batches)))

\* the rows of the queries of `promises` that the database has answered
SettledRows ==
  Flatten([n \in 1 .. Len(SelectSeq(promises, LAMBDA p : p.state = "settled")) |->
             SelectSeq(promises, LAMBDA p : p.state = "settled")[n].data])

\* the rows of the n-th input list that have been written so far
WrittenOf(n, rows) ==
  IF PhaseNo < n THEN <<>> ELSE IF PhaseNo = n THEN SettledRows ELSE rows

\* the rows of traceSession with the key of `session`
SessionsWithKey(session) ==
  {n \in DOMAIN db["traceSession"] :
     /\ db["traceSession"][n].id = session.id
     /\ db["traceSession"][n].projectId = session.projectId}

\* the progress lines of a collection
LinesOf(label) == {n \in DOMAIN logs : logs[n].of = label}

\* `${((i + 1) / promises.length) * 100}%` is 100%
ReportsAll(line) == line.done * 100 = 100 * line.outOf

\* the progress lines of the n-th loop, once it is over
ProgressOf(n, label, batches) ==
  /\ batches = 0 => LinesOf(label) = {}
  /\ batches > 0 /\ PhaseNo > n =>
       /\ \E m \in LinesOf(label) : logs[m].done = 1 /\ logs[m].outOf = batches
       /\ \E m \in LinesOf(label) :
            /\ logs[m].done = batches /\ ReportsAll(logs[m])
            /\ \A o \in LinesOf(label) : o <= m

\* C20: uploadObjects partitions its input. Every comment and every queue
\* item is written in exactly one createMany batch, the batches keep the
\* order of the input and hold at most chunkSize rows, every session is
\* written by exactly one upsert keyed by (id, projectId), an empty list
\* causes no write, and each non-empty list logs a progress line for its
\* first and for its last chunk, the last one reporting 100%.
C20_UploaderPartitionsInput ==
  /\ PhaseNo >= 1 =>
       /\ Flatten([n \in DOMAIN promises |-> promises[n].data]) = PhaseRows
       /\ \A n \in DOMAIN promises :
            /\ promises[n].data # <<>>
            /\ Len(promises[n].data) <= (IF PhaseNo = 1 THEN 1 ELSE chunkSize)
            /\ promises[n].table =
                 (IF PhaseNo = 1 THEN "traceSession"
                  ELSE IF PhaseNo = 2 THEN "comment" ELSE "annotationQueueItem")
  /\ db["comment"] = WrittenOf(2, upComments)
  /\ db["annotationQueueItem"] = WrittenOf(3, upQueueItems)
  /\ \A n \in DOMAIN WrittenOf(1, upSessions) :
       Cardinality(SessionsWithKey(WrittenOf(1, upSessions)[n])) = 1
  /\ \A n \in DOMAIN db["traceSession"] :
       \/ db["traceSession"][n] = SessionRow(1)
       \/ \E m \in DOMAIN WrittenOf(1, upSessions) :
            db["traceSession"][n] = WrittenOf(1, upSessions)[m]
  /\ ProgressOf(1, "Sessions", Len(upSessions))
  /\ ProgressOf(2, "Comments", (Len(upComments) + chunkSize - 1) \div chunkSize)
  /\ ProgressOf(3, "Annotation Queue Items",
                (Len(upQueueItems) + chunkSize - 1) \div chunkSize)

\* uploadObjects has returned after two comment batches, the second one
\* shorter than chunkSize, and after an upsert of a session that existed
C20_Witness ==
  /\ up = "returned"
  /\ Len(upComments) = chunkSize + 1
  /\ db["comment"] = upComments
  /\ Len(upSessions) = 2 /\ Len(db["traceSession"]) = 2
  /\ upQueueItems = <<>>
  /\ Cardinality(LinesOf("Comments")) = 2

\* ------------------------------------------------- properties: timestamps

\* the generations and the events recorded for the span of this iteration
UnderSpan(rows) ==
  {n \in DOMAIN rows : span # Undefined /\ rows[n].parentObservationId = span.id}

\* the spans recorded for the trace of this iteration
SpansOfTrace ==
  {n \in DOMAIN observations :
     /\ trace # Undefined
     /\ observations[n].type = "SPAN"
     /\ observations[n].traceId = trace.id}

\* C21: the generated timestamps nest. trace.timestamp <= span.startTime <=
\* generation.startTime <= the generation's completion start <=
\* generation.endTime <= span.endTime, and an event's startTime lies within
\* [span.startTime, span.endTime], also for a span whose duration is 0 ms.
C21_TimestampsNest ==
  /\ \A n \in SpansOfTrace :
       /\ trace.timestamp <= observations[n].startTime
       /\ observations[n].startTime <= observations[n].endTime
  /\ span # Undefined =>
       /\ trace.timestamp <= span.startTime
       /\ span.startTime <= span.endTime
  /\ \A n \in UnderSpan(observations) :
       /\ observations[n].type = "GENERATION"
       /\ span.startTime <= observations[n].startTime
       /\ observations[n].startTime <= observations[n].endTime
       /\ observations[n].endTime <= span.endTime
       /\ observations[n].completionStartTime # Undefined =>
            /\ observations[n].startTime <= observations[n].completionStartTime[1]
            /\ observations[n].completionStartTime[1] <= observations[n].endTime
  /\ \A n \in UnderSpan(events) :
       /\ span.startTime <= events[n].startTime
       /\ events[n].startTime <= span.endTime

\* a generation with a completion start and an event of a span of 0 ms
C21_Witness ==
  /\ span # Undefined
  /\ span.startTime = span.endTime
  /\ \E n \in UnderSpan(observations) :
       observations[n].completionStartTime = Some(span.startTime)
  /\ UnderSpan(events) # {}

\* a generation that ends after its completion start, which is after its start
C21_LongGeneration ==
  \E n \in UnderSpan(observations) :
    /\ observations[n].completionStartTime # Undefined
    /\ observations[n].startTime < observations[n].completionStartTime[1]
    /\ observations[n].completionStartTime[1] < observations[n].endTime

\* --------------------------------------------------- properties: sessions

\* the entries of the returned `sessions` with this id and projectId
SessionEntries(id, projectId) ==
  {n \in DOMAIN returned.sessions :
     returned.sessions[n].id = id /\ returned.sessions[n].projectId = projectId}

\* C22: the `sessions` list createObjects returns holds no two entries with
\* the same (id, projectId), hence at most 6 entries with the ids session-0
\* to session-2 per project, and every trace that carries a sessionId has
\* its entry (sessionId, trace.projectId) in the list.
C22_SessionsUniqueByIdAndProject ==
  co = "returned" =>
    /\ \A n \in DOMAIN returned.sessions :
         /\ SessionEntries(returned.sessions[n].id,
                           returned.sessions[n].projectId) = {n}
         /\ returned.sessions[n].id \in {<<"session", m>> : m \in 0 .. 2}
         /\ returned.sessions[n].projectId \in Range(Projects)
    /\ Len(returned.sessions) <= 6
    /\ \A n \in DOMAIN returned.traces :
         returned.traces[n].sessionId # Undefined =>
           Cardinality(SessionEntries(returned.traces[n].sessionId,
                                      returned.traces[n].projectId)) = 1

\* createObjects has returned after the first and the seventh trace pushed
\* the same session
C22_Witness ==
  /\ co = "returned"
  /\ Len(returned.traces) = 7
  /\ returned.traces[1].sessionId = <<"session", 0>>
  /\ returned.traces[7].sessionId = <<"session", 0>>
  /\ returned.traces[1].projectId = returned.traces[7].projectId
  /\ Len(sessions) > Len(returned.sessions)

\* --------------------------------------------------- properties: dashboards

\* the rows of table t that belong to `project` and carry `name`
NamedRowsOf(t, project, name) ==
  {n \in DOMAIN db[t] : db[t][n].projectId = project /\ db[t][n].name = name}

\* C23, as stated: after createDashboardsAndWidgets([project1, project2]) has
\* returned on a database without dashboards, every project of the list owns
\* a "Performance Overview" dashboard and the widgets "Trace Counts" and
\* "Observation Latencies by Model", and the widget entries of a dashboard
\* reference widgets of the dashboard's project.
C23_AsStated ==
  /\ mpc = "llmSchema"
  /\ db0["dashboard"] = <<>> /\ db0["dashboardWidget"] = <<>>
  => /\ \A p \in Range(Projects) :
          /\ NamedRowsOf("dashboard", p, "Performance Overview") # {}
          /\ NamedRowsOf("dashboardWidget", p, "Trace Counts") # {}
          /\ NamedRowsOf("dashboardWidget", p, "Observation Latencies by Model") # {}
     /\ \A n \in DOMAIN db["dashboard"] :
          \A w \in Range(db["dashboard"][n].widgets) :
            \E m \in DOMAIN db["dashboardWidget"] :
              /\ db["dashboardWidget"][m].id = w
              /\ db["dashboardWidget"][m].projectId = db["dashboard"][n].projectId

\* ------------------------------------------- properties: the baseline roles

\* the memberships of user `userId` in organization `orgId`
OrgMemberships(userId, orgId) ==
  {n \in DOMAIN db["organizationMembership"] :
     /\ db["organizationMembership"][n].userId = userId
     /\ db["organizationMembership"][n].orgId = orgId}

\* the project membership of user-2 points at user-2's membership in the
\* organization that owns the project
ProjectMembershipLinked ==
  \E p \in DOMAIN db["project"], n \in DOMAIN db["projectMembership"] :
    /\ db["project"][p].id = seedProjectId
    /\ db["projectMembership"][n].userId = seedUserId2
    /\ db["projectMembership"][n].projectId = seedProjectId
    /\ \E m \in OrgMemberships(seedUserId2, db["project"][p].orgId) :
         db["projectMembership"][n].orgMembershipId =
           db["organizationMembership"][m].id

\* C24, as stated: after every successful run user-1 is OWNER of the seed
\* org, user-2 is MEMBER of the seed org and ADMIN of project llm-app, and
\* the project membership's orgMembershipId is the id of user-2's membership
\* in the organization that owns the project, also on a database where the
\* memberships existed with other values.
C24_AsStated ==
  mpc = "ended" =>
    /\ OrgMemberships(seedUserId1, seedOrgId) # {}
    /\ \A n \in OrgMemberships(seedUserId1, seedOrgId) :
         db["organizationMembership"][n].role = "OWNER"
    /\ OrgMemberships(seedUserId2, seedOrgId) # {}
    /\ \A n \in OrgMemberships(seedUserId2, seedOrgId) :
         db["organizationMembership"][n].role = "MEMBER"
    /\ \E n \in DOMAIN db["projectMembership"] :
         /\ db["projectMembership"][n].userId = seedUserId2
         /\ db["projectMembership"][n].projectId = seedProjectId
         /\ db["projectMembership"][n].role = "ADMIN"
    /\ ProjectMembershipLinked

\* the link of the project membership after a successful run
C24_LinkHolds == mpc = "ended" => ProjectMembershipLinked

\* the roles after a successful run on a database without memberships
C24_RolesOfFirstSeed ==
  mpc = "ended" /\ run = 1 /\ db0["organizationMembership"] = <<>> => C24_AsStated

\* ----------------------------------------------------- properties: fan-out

\* the spans returned for the n-th trace
SpansOf(n) ==
  {m \in DOMAIN returned.observations :
     /\ returned.observations[m].type = "SPAN"
     /\ returned.observations[m].traceId = returned.traces[n].id}

\* the generations returned for the span at position m
GenerationsOf(m) ==
  {g \in DOMAIN returned.observations :
     /\ returned.observations[g].type = "GENERATION"
     /\ returned.observations[g].parentObservationId = returned.observations[m].id}

\* the events pushed in the iteration of the generation at position g: the
\* event loop runs inside the generation loop, under the same i, j and k
EventsOf(g) ==
  {e \in DOMAIN returned.events :
     SubSeq(returned.events[e].id[2][2], 1, 3) = returned.observations[g].id[2][2]}

\* what createObjects returns is bounded
FanOutBounded ==
  co = "returned" =>
    /\ Len(returned.traces) = traceVolume
    /\ \A n \in DOMAIN returned.traces :
         /\ returned.traces[n].projectId =
              (IF (n - 1) % 2 = 0 THEN seedProjectId ELSE project2Id)
         /\ Cardinality(SpansOf(n)) \in 1 .. MaxSpans
         /\ \A m \in SpansOf(n) :
              /\ Cardinality(GenerationsOf(m)) \in 1 .. GenerationDraws
              /\ \A g \in GenerationsOf(m) :
                   Cardinality(EventsOf(g)) \in 0 .. EventDraws - 1

\* C25: for every traceVolume and every sequence of draws createObjects
\* returns, with exactly traceVolume traces, trace i of project1 for an even
\* i and of project2 for an odd i, between 1 and 10 spans per trace, 1 or 2
\* generations per span and at most 1 event per generation.
C25_FanOutBoundedAndTerminates == []FanOutBounded /\ <>(co = "returned")

\* createObjects has returned two traces, the first with the most spans and
\* a span with two generations, one of them with an event
C25_Witness ==
  /\ co = "returned"
  /\ Len(returned.traces) = 2
  /\ Cardinality(SpansOf(1)) = MaxSpans
  /\ \E m \in SpansOf(1) :
       /\ Cardinality(GenerationsOf(m)) = 2
       /\ \E g \in GenerationsOf(m) : Cardinality(EventsOf(g)) = 1

\* ------------------------------- properties: the duplicate check of POST

\* C26, as stated: a POST whose userName differs only in letter case from
\* the email of a member of the key's organization is answered 409 and
\* creates no membership, like a POST with the identical spelling.
C26_AsStated ==
  \A r \in DOMAIN requests :
    (/\ ValidPost(requests[r])
     /\ Lowered(requests[r].body.value.userName)
          \in MemberEmails(ScimDb, requests[r].auth.scope.orgId))
    => /\ hpc[r] = "done" => responses[r][1].http = 409
       /\ WrittenBy("organizationMembership", r) = {}

\* the answer to a POST for a member's email in another letter case
C26_AnsweredWith500 ==
  \A r \in DOMAIN requests :
    (/\ ValidPost(requests[r])
     /\ requests[r].body.value.userName
          \notin MemberEmails(ScimDb, requests[r].auth.scope.orgId)
     /\ Lowered(requests[r].body.value.userName)
          \in MemberEmails(ScimDb, requests[r].auth.scope.orgId)
     /\ hpc[r] = "done")
    => responses[r][1].http = 500 /\ WrittenBy("organizationMembership", r) = {}

\* ------------------------------------ properties: a POST that fails

\* C27, as stated: whenever a POST is answered 500 the database holds no
\* user and no membership that the request wrote: the user upsert and the
\* membership create take effect together or not at all.
C27_AsStated ==
  \A r \in DOMAIN requests :
    (/\ requests[r].method = "POST"
     /\ hpc[r] = "done"
     /\ responses[r][1].http = 500)
    => WrittenBy("user", r) = {} /\ WrittenBy("organizationMembership", r) = {}

\* the membership half of the statement
C27_NoMembershipOn500 ==
  \A r \in DOMAIN requests :
    (/\ requests[r].method = "POST"
     /\ hpc[r] = "done"
     /\ responses[r][1].http = 500)
    => WrittenBy("organizationMembership", r) = {}

\* ----------------------------------------------------- properties: datasets

\* the trace or observation `id` refers to belongs to `projectId`
InProject(traceId, observationId, projectId) ==
  \A n \in DOMAIN ds.observations :
    /\ ds.observations[n].traceId = traceId =>
         ds.observations[n].projectId = projectId
    /\ (observationId # Undefined /\ ds.observations[n].id = observationId) =>
         ds.observations[n].projectId = projectId

\* the rows of table t with this id
RowsWithId(t, id) == {n \in DOMAIN db[t] : db[t][n].id = id}

\* the run items stay inside the project and inside one dataset
RunItemsInside ==
  \A n \in DOMAIN db["datasetRunItems"] :
    LET item == db["datasetRunItems"][n]
    IN /\ InProject(item.traceId, item.observationId, item.projectId)
       /\ \A di \in RowsWithId("datasetItem", item.datasetItemId),
             dr \in RowsWithId("datasetRuns", item.datasetRunId) :
            db["datasetItem"][di].datasetId = db["datasetRuns"][dr].datasetId
       /\ RowsWithId("datasetItem", item.datasetItemId) # {}
       /\ RowsWithId("datasetRuns", item.datasetRunId) # {}

\* every run of a dataset has one run item per item of the dataset
OneRunItemPerItem ==
  ds.pc = "returned" =>
    \A d \in DOMAIN db["dataset"] :
      LET dataset == db["dataset"][d]
          runs == {r \in DOMAIN db["datasetRuns"] :
                     db["datasetRuns"][r].datasetId = dataset.id}
          items == {m \in DOMAIN db["datasetItem"] :
                      db["datasetItem"][m].datasetId = dataset.id}
      IN /\ Cardinality(runs) = DatasetRunCount
         /\ (\E o \in DOMAIN ds.observations :
               ds.observations[o].projectId = dataset.projectId)
            => \A r \in runs, m \in items :
                 Cardinality({n \in DOMAIN db["datasetRunItems"] :
                    /\ db["datasetRunItems"][n].datasetItemId = db["datasetItem"][m].id
                    /\ db["datasetRunItems"][n].datasetRunId = db["datasetRuns"][r].id})
                   = 1

\* C28, as stated: every dataset item and every dataset run item written by
\* createDatasets references a source trace and observation of the project
\* of the row, the item and the run of a run item belong to one dataset, and
\* each of the 5 runs of a dataset gets one run item per item of the dataset
\* when the project has an observation.
C28_AsStated ==
  /\ \A n \in DOMAIN db["datasetItem"] :
       InProject(db["datasetItem"][n].sourceTraceId,
                 db["datasetItem"][n].sourceObservationId,
                 db["datasetItem"][n].projectId)
  /\ RunItemsInside
  /\ OneRunItemPerItem

\* the statement without the source of the dataset items
C28_RunItemsHold == RunItemsInside /\ OneRunItemPerItem

====
